---- MODULE Spec2Model ----
(***************************************************************************)
(* A model of the tvm-spec-example decompiler: the opcode decoder          *)
(* (src/disasm.ts), the symbolic stack (src/stackAnalysis.ts), the lifter  *)
(* (src/frontend/lifter.ts, src/frontend/lifter/operands.ts) and the       *)
(* inlining passes (src/opt/inline.ts, src/middle/pipeline.ts).            *)
(*                                                                         *)
(* A cell is a record [bits, refs]; a slice is a cursor with the same      *)
(* shape.  Identifiers are the strings the code formats ("var3", "arg0").  *)
(* The recursion of lift() into continuation operands is a stack of        *)
(* frames, one per active call.                                            *)
(***************************************************************************)
EXTENDS Integers, Sequences, FiniteSets, TLC

VARIABLES
    root,        \* the cell whose slice is handed to liftSliceToIR
    frames,      \* the active calls of lift(), innermost last
    varCounter,  \* Stack._varCounter (static, shared by every Stack)
    ret,         \* what liftSliceToIR returned, as it was returned; NoFn before
    thrown,      \* an exception that escaped lift() to its caller
    runs,        \* how many times liftSliceToIR has been called on root
    firstRet,    \* what the first call returned
    piped,       \* defaultPipeline().run(ret)
    piped2,      \* defaultPipeline().run(piped)
    runArg,      \* the object handed to defaultPipeline().run, as the run left it
    dec,         \* Decompiler.decompileSlice(root): its position, locals and result
    stk,         \* a Stack object driven through its public methods
    last         \* the last method called on stk: its name, stk before, its outcome

vars == <<root, frames, varCounter, ret, thrown, runs, firstRet, piped, piped2, runArg, dec,
          stk, last>>

(***************************************************************************)
(* Bounds of the model.                                                    *)
(***************************************************************************)
MaxInsns == 3
MaxPipeInsns == 4
MaxRuns == 2
MaxFlowInsns == 2
MaxDepth == 2
MaxArms == 2
MaxArmLen == 2
MaxVars == 4
MaxTail == 1
MaxDecodeInsns == 2
MaxShuffleInsns == 4
MaxLiveInsns == 2

(***************************************************************************)
(* Generic helpers.                                                        *)
(***************************************************************************)
None == [kind |-> "none"]
NoFn == [kind |-> "none"]
NoErr == "none"

RECURSIVE Flatten(_)
Flatten(ss) == IF ss = <<>> THEN <<>> ELSE Head(ss) \o Flatten(Tail(ss))

Rev(s) == [i \in 1..Len(s) |-> s[Len(s) + 1 - i]]

Take(s, n) == SubSeq(s, 1, n)
Drop(s, n) == SubSeq(s, n + 1, Len(s))

Min(a, b) == IF a < b THEN a ELSE b
Max(a, b) == IF a > b THEN a ELSE b

Range(s) == {s[i] : i \in 1..Len(s)}

RECURSIVE Pow2(_)
Pow2(n) == IF n = 0 THEN 1 ELSE 2 * Pow2(n - 1)

(***************************************************************************)
(* Bits (src/disasm.ts).                                                   *)
(***************************************************************************)
\* intToBin(n, size): the size low bits of n, most significant first
intToBin(n, size) == [i \in 1..size |-> (n \div Pow2(size - i)) % 2]

\* bitsToIntUint: the unsigned value of a bit string
RECURSIVE bitsToUint(_)
bitsToUint(bits) ==
    IF bits = <<>> THEN 0
    ELSE 2 * bitsToUint(Take(bits, Len(bits) - 1)) + bits[Len(bits)]

\* bitsToIntUint with type int: the two's complement value of a bit string
bitsToInt(bits) ==
    IF bits = <<>> THEN 0
    ELSE bitsToUint(Tail(bits)) - bits[1] * Pow2(Len(bits) - 1)

\* a prefix is the sequence of the values parseInt(hex, 16) gives for its
\* characters; the completion tag '_' stays in the string (the result of
\* prefix.slice(0, -1) at line 15 is dropped), parses to NaN and yields the
\* bits 0000 (NaN >> i is 0): it is written as a digit whose four low bits are 0
Underscore == 16

\* removeCompletionTag: the bits before the last 1; None when there is no 1
removeCompletionTag(bits) ==
    IF \A i \in 1..Len(bits) : bits[i] = 0 THEN None
    ELSE Take(bits, (CHOOSE k \in 1..Len(bits) :
                        bits[k] = 1 /\ \A m \in (k + 1)..Len(bits) : bits[m] = 0) - 1)

\* prefixToBin
prefixToBin(prefix) ==
    IF prefix # <<>> /\ prefix[Len(prefix)] = Underscore
    THEN removeCompletionTag(Flatten([i \in 1..Len(prefix) |-> intToBin(prefix[i], 4)]))
    ELSE Flatten([i \in 1..Len(prefix) |-> intToBin(prefix[i], 4)])

(***************************************************************************)
(* The instruction catalog (cp0.instructions, imported by src/tvm-spec.ts):*)
(* the entries of the catalog that the programs of this model use.         *)
(* prefix is the hex prefix as a sequence of digit values.                 *)
(***************************************************************************)
NoRange == [kind |-> "none"]
Simple(n) == [type |-> "simple", name |-> n]
ConstEntry == [type |-> "const", name |-> ""]
ArrayOf(lv, ents) == [type |-> "array", name |-> "", length_var |-> lv, array_entry |-> ents]
\* a conditional output: the stacks of its match arms, and its optional else arm
\* as a sequence of no element or of one
Conditional(m, e) == [type |-> "conditional", name |-> "", match |-> m, else |-> e]
NoElse == <<>>
Else(ents) == <<ents>>
UintOp(n, w) == [name |-> n, type |-> "uint", size |-> w, continuation |-> FALSE]
IntOp(n, w) == [name |-> n, type |-> "int", size |-> w, continuation |-> FALSE]
LongOp(n) == [name |-> n, type |-> "pushint_long", size |-> 0, continuation |-> FALSE]
RefOp(n) == [name |-> n, type |-> "ref", size |-> 0, continuation |-> FALSE]
RefCont(n) == [name |-> n, type |-> "ref", size |-> 0, continuation |-> TRUE]
\* a subslice operand: refs_add, refs_length_var_size, bits_padding,
\* bits_length_var_size (0 when absent), completion_tag, and whether a display
\* hint marks it as a continuation
Subslice(n, ra, rv, bp, bv, tag, cont) ==
    [name |-> n, type |-> "subslice", size |-> bv, continuation |-> cont,
     refs_add |-> ra, refs_length_var_size |-> rv, bits_padding |-> bp,
     bits_length_var_size |-> bv, completion_tag |-> tag]
\* subslice with a length field of w bits counting bytes, no refs, no completion tag
SubsliceCont(n, w) == Subslice(n, 0, 0, 0, w, FALSE, TRUE)
\* a branch {type: "variable", var_name, save: {c0: {type: "cc"}}} has cc = TRUE
Branch(v, isCc) == [var_name |-> v, cc |-> isCc]

Insn(m, pfx, rc, ops, cat, ins, outs, brs, nb) ==
    [mnemonic |-> m, prefix |-> pfx, operands_range_check |-> rc, operands |-> ops,
     category |-> cat, inputs |-> ins, outputs |-> outs, branches |-> brs, nobranch |-> nb]

cp0 ==
    << Insn("NOP", <<0, 0>>, NoRange, <<>>, "stack_basic", <<>>, <<>>, <<>>, TRUE),
       Insn("XCHG_0I", <<0>>, [kind |-> "range", length |-> 4, from |-> 1, to |-> 15],
            <<UintOp("i", 4)>>, "stack_basic", <<>>, <<>>, <<>>, TRUE),
       Insn("PUSH", <<2>>, NoRange, <<UintOp("i", 4)>>, "stack_basic", <<>>, <<>>, <<>>, TRUE),
       Insn("POP", <<3>>, NoRange, <<UintOp("i", 4)>>, "stack_basic", <<>>, <<>>, <<>>, TRUE),
       Insn("BLKPUSH", <<5, 15>>, [kind |-> "range", length |-> 8, from |-> 16, to |-> 255],
            <<UintOp("i", 4), UintOp("j", 4)>>, "stack_complex", <<>>, <<>>, <<>>, TRUE),
       Insn("BLKDROP2", <<6, 12>>, [kind |-> "range", length |-> 8, from |-> 16, to |-> 255],
            <<UintOp("i", 4), UintOp("j", 4)>>, "stack_complex", <<>>, <<>>, <<>>, TRUE),
       Insn("DEPTH", <<6, 8>>, NoRange, <<>>, "stack_complex",
            <<>>, <<Simple("depth")>>, <<>>, TRUE),
       Insn("PUSHINT_4", <<7>>, NoRange, <<UintOp("i", 4)>>, "const_int",
            <<>>, <<Simple("x")>>, <<>>, TRUE),
       Insn("ADD", <<10, 0>>, NoRange, <<>>, "arithm_basic",
            <<Simple("x"), Simple("y")>>, <<Simple("result")>>, <<>>, TRUE),
       Insn("INC", <<10, 4>>, NoRange, <<>>, "arithm_basic",
            <<Simple("x")>>, <<Simple("result")>>, <<>>, TRUE),
       Insn("TUPLE", <<6, 15, 0>>, NoRange, <<UintOp("n", 4)>>, "tuple",
            <<ArrayOf("n", <<Simple("x")>>)>>, <<Simple("t")>>, <<>>, TRUE),
       Insn("DICTGET", <<15, 4, 0, 10>>, NoRange, <<>>, "dict_get",
            <<Simple("k"), Simple("D"), Simple("n")>>,
            <<Conditional(<< <<>>, <<Simple("x")>> >>, NoElse), Simple("f")>>, <<>>, TRUE),
       Insn("NULLSWAPIFNOT", <<6, 15, 10, 1>>, NoRange, <<>>, "tuple",
            <<Simple("x")>>,
            <<Conditional(<< <<ConstEntry>> >>, Else(<<>>)), Simple("x")>>, <<>>, TRUE),
       Insn("PUSHCONT_SHORT", <<9>>, NoRange, <<SubsliceCont("s", 4)>>, "const_data",
            <<>>, <<Simple("c")>>, <<>>, TRUE),
       Insn("EXECUTE", <<13, 8>>, NoRange, <<>>, "cont_basic",
            <<Simple("c")>>, <<>>, <<Branch("c", TRUE)>>, FALSE),
       Insn("JMPX", <<13, 9>>, NoRange, <<>>, "cont_basic",
            <<Simple("c")>>, <<>>, <<Branch("c", FALSE)>>, FALSE),
       Insn("IFREF", <<14, 3, 0, 0>>, NoRange, <<RefCont("c")>>, "cont_conditional",
            <<Simple("f")>>, <<>>, <<Branch("c", TRUE)>>, TRUE),
       Insn("IFREFELSEREF", <<14, 3, 0, 15>>, NoRange, <<RefCont("c1"), RefCont("c2")>>,
            "cont_conditional",
            <<Simple("f")>>, <<>>, <<Branch("c1", TRUE), Branch("c2", TRUE)>>, FALSE),
       \* opcodes declared with the conditional outputs the specification speaks of:
       \* two arms of one entry, two arms of two entries, arms without an entry
       \* (after a plain output), and a conditional output without an arm
       Insn("CONDAB", <<15, 14, 0, 1>>, NoRange, <<>>, "app_misc",
            <<>>, <<Conditional(<< <<Simple("a")>>, <<Simple("b")>> >>, NoElse)>>, <<>>, TRUE),
       Insn("CONDAB2", <<15, 14, 0, 2>>, NoRange, <<>>, "app_misc",
            <<>>,
            <<Simple("s"),
              Conditional(<< <<Simple("a"), ConstEntry>> >>, Else(<<Simple("c"), Simple("d")>>))>>,
            <<>>, TRUE),
       Insn("CONDEMPTY", <<15, 14, 0, 3>>, NoRange, <<>>, "app_misc",
            <<>>, <<Simple("x"), Conditional(<< <<>> >>, Else(<<>>))>>, <<>>, TRUE),
       Insn("CONDNONE", <<15, 14, 0, 4>>, NoRange, <<>>, "app_misc",
            <<>>, <<Simple("x"), Conditional(<<>>, NoElse)>>, <<>>, TRUE),
       \* an opcode without inputs whose arms have the lengths [1, 0]
       Insn("CONDFILL", <<15, 14, 0, 5>>, NoRange, <<>>, "app_misc",
            <<>>, <<Conditional(<< <<ConstEntry>> >>, Else(<<>>))>>, <<>>, TRUE),
       \* entries with an int operand, a long integer, a subslice with refs and a
       \* completion tag, range checks with an upper limit, prefixes with a
       \* completion tag
       Insn("PUSHINT_8", <<8, 0>>, NoRange, <<IntOp("x", 8)>>, "const_int",
            <<>>, <<Simple("x")>>, <<>>, TRUE),
       Insn("PUSHINT_LONG", <<8, 2>>, NoRange, <<LongOp("x")>>, "const_int",
            <<>>, <<Simple("x")>>, <<>>, TRUE),
       Insn("PUSHPOW2", <<8, 3>>, [kind |-> "range", length |-> 8, from |-> 0, to |-> 254],
            <<UintOp("x", 8)>>, "const_int", <<>>, <<Simple("result")>>, <<>>, TRUE),
       Insn("PUSHNAN", <<8, 3, 15, 15>>, NoRange, <<>>, "const_int",
            <<>>, <<Simple("x")>>, <<>>, TRUE),
       Insn("PUSHSLICE_REFS", <<8, 12>>, NoRange, <<Subslice("s", 1, 2, 1, 5, TRUE, FALSE)>>,
            "const_data", <<>>, <<Simple("s")>>, <<>>, TRUE),
       Insn("SETCP", <<15, 15>>, [kind |-> "range", length |-> 8, from |-> 0, to |-> 239],
            <<UintOp("n", 8)>>, "codepage", <<>>, <<>>, <<>>, TRUE),
       Insn("SETCPX", <<15, 15, 15, 0>>, NoRange, <<>>, "codepage",
            <<Simple("c")>>, <<>>, <<>>, TRUE),
       Insn("DICTPUSHCONST", <<15, 4, 10, 6, Underscore>>, NoRange,
            <<RefOp("d"), UintOp("n", 10)>>, "dict_special",
            <<>>, <<Simple("D"), Simple("n")>>, <<>>, TRUE),
       Insn("DICTIGETJMPZ", <<15, 4, 11, 12>>, NoRange, <<>>, "dict_special",
            <<Simple("i"), Simple("D"), Simple("n")>>, <<>>, <<>>, TRUE),
       Insn("THROWARG", <<15, 2, 12, 12, Underscore>>, NoRange, <<UintOp("n", 11)>>,
            "exceptions", <<Simple("x")>>, <<>>, <<>>, TRUE) >>

Mnemonics == {cp0[i].mnemonic : i \in 1..Len(cp0)}
SpecOf(m) == cp0[CHOOSE i \in 1..Len(cp0) : cp0[i].mnemonic = m]

(***************************************************************************)
(* Slices (ton3-core): a cursor [bits, refs]; a read past the end throws.  *)
(***************************************************************************)
EmptyCell == [bits |-> <<>>, refs |-> <<>>]
Cell(b, r) == [bits |-> b, refs |-> r]

(***************************************************************************)
(* OpcodeParser (src/disasm.ts).  Every result carries the cursor as the   *)
(* call left it: the decoder advances the caller's slice in place, also    *)
(* when it fails half way.                                                 *)
(***************************************************************************)
\* the keys of getMap(): the prefix bit string of every instruction, in catalog order
prefixBits == [i \in 1..Len(cp0) |-> prefixToBin(cp0[i].prefix)]

\* getMap().get(bits): None when no instruction has the prefix (a later entry of
\* the catalog with the same prefix would replace an earlier one in the Map)
getMap(bits) ==
    LET hits == {i \in 1..Len(cp0) : prefixBits[i] = bits}
    IN  IF hits = {} THEN None
        ELSE cp0[CHOOSE i \in hits : \A j \in hits : j <= i]

getLongestPrefixLength ==
    CHOOSE n \in 0..64 :
        /\ \E i \in 1..Len(cp0) : Len(prefixBits[i]) = n
        /\ \A i \in 1..Len(cp0) : Len(prefixBits[i]) <= n

\* the range check of loadPrefix at candidate length `bits`: "pass", "fail", or
\* "throw" when loadUint runs past the end of the copy
rangeCheckAt(slice, bits, rangeCheck) ==
    IF rangeCheck = NoRange THEN "pass"
    ELSE IF bits + rangeCheck.length > Len(slice.bits) THEN "throw"
    ELSE IF bitsToUint(SubSeq(slice.bits, bits + 1, bits + rangeCheck.length))
               \in rangeCheck.from..rangeCheck.to
    THEN "pass"
    ELSE "fail"

\* a loop that gives up at the first range check that fails
tryLength_giveUp(slice, bits, instruction) ==
    IF instruction = None THEN "next"
    ELSE IF rangeCheckAt(slice, bits, instruction.operands_range_check) = "pass" THEN "match"
    ELSE "throw"

\* the body of loadPrefix's loop once the Map lookup is made:
\* "next" (continue), "throw", or "match"
tryLength(slice, bits, instruction) ==
    IF instruction = None THEN "next"
    ELSE IF rangeCheckAt(slice, bits, instruction.operands_range_check) = "fail" THEN "next"
    ELSE IF rangeCheckAt(slice, bits, instruction.operands_range_check) = "throw" THEN "throw"
    ELSE "match"

\* the first candidate length >= bits at which loadPrefix stops: by a match, by a
\* throw of preloadBits or loadUint, or past the longest prefix (no match)
RECURSIVE stopLength(_, _)
stopLength(slice, bits) ==
    IF bits > getLongestPrefixLength \/ bits > Len(slice.bits) THEN bits
    ELSE IF tryLength(slice, bits, getMap(Take(slice.bits, bits))) = "next"
    THEN stopLength(slice, bits + 1)
    ELSE bits

\* a decoder that also skips the bits its range check looked at
loadPrefixAt_eatsRange(slice, bits) ==
    IF bits > getLongestPrefixLength
    THEN [err |-> "Prefix not found", insn |-> None, slice |-> slice]
    ELSE IF bits > Len(slice.bits)
    THEN [err |-> "Slice: bits overflow", insn |-> None, slice |-> slice]
    ELSE IF tryLength(slice, bits, getMap(Take(slice.bits, bits))) = "throw"
    THEN [err |-> "Slice: bits overflow", insn |-> None, slice |-> slice]
    ELSE [err |-> NoErr, insn |-> getMap(Take(slice.bits, bits)),
          slice |-> [slice EXCEPT !.bits =
              Drop(slice.bits,
                   bits + IF getMap(Take(slice.bits, bits)).operands_range_check = NoRange
                          THEN 0
                          ELSE getMap(Take(slice.bits, bits)).operands_range_check.length)]]

loadPrefixAt(slice, bits) ==
    IF bits > getLongestPrefixLength
    THEN [err |-> "Prefix not found", insn |-> None, slice |-> slice]
    ELSE IF bits > Len(slice.bits)
    THEN [err |-> "Slice: bits overflow", insn |-> None, slice |-> slice]
    ELSE IF tryLength(slice, bits, getMap(Take(slice.bits, bits))) = "throw"
    THEN [err |-> "Slice: bits overflow", insn |-> None, slice |-> slice]
    ELSE [err |-> NoErr, insn |-> getMap(Take(slice.bits, bits)),
          slice |-> [slice EXCEPT !.bits = Drop(slice.bits, bits)]]

\* loadPrefix: [err, insn, slice]
loadPrefix(slice) == loadPrefixAt(slice, stopLength(slice, 1))

Loaded(v, slice) == [err |-> NoErr, value |-> v, slice |-> slice]
Overflow(what, slice) == [err |-> what, value |-> None, slice |-> slice]

\* lines 66-71: the payload taken, its completion tag removed, the refs skipped
loadSubsliceRefs(operand, after, bits, refLength) ==
    IF operand.completion_tag /\ removeCompletionTag(bits) = None
    THEN Overflow("no completion tag", after)
    ELSE IF refLength > Len(after.refs) THEN Overflow("Slice: refs overflow", after)
    ELSE Loaded([k |-> "slice",
                 v |-> Cell(IF operand.completion_tag THEN removeCompletionTag(bits) ELSE bits,
                            Take(after.refs, refLength))],
                [after EXCEPT !.refs = Drop(after.refs, refLength)])

\* line 65: loadBits(bitLength)
loadSubsliceBits(operand, after, refLength, bitLength) ==
    IF bitLength > Len(after.bits) THEN Overflow("Slice: bits overflow", after)
    ELSE loadSubsliceRefs(operand, [after EXCEPT !.bits = Drop(after.bits, bitLength)],
                          Take(after.bits, bitLength), refLength)

\* line 64: bitLength, its length field read when there is one
loadSubsliceLen(operand, after, refLength) ==
    IF operand.bits_length_var_size > Len(after.bits)
    THEN Overflow("Slice: bits overflow", after)
    ELSE loadSubsliceBits(operand,
             [after EXCEPT !.bits = Drop(after.bits, operand.bits_length_var_size)],
             refLength,
             operand.bits_padding
                 + bitsToUint(Take(after.bits, operand.bits_length_var_size)) * 8)

\* line 61, the 5-bit length field read: loadInt(8 * L + 19)
loadLong(after, width) ==
    IF width > Len(after.bits) THEN Overflow("Slice: bits overflow", after)
    ELSE Loaded([k |-> "num", v |-> bitsToInt(Take(after.bits, width))],
                [after EXCEPT !.bits = Drop(after.bits, width)])

\* loadOperand: [err, value, slice]
loadOperand(operand, slice) ==
    IF operand.type = "uint" THEN
        IF operand.size > Len(slice.bits) THEN Overflow("Slice: bits overflow", slice)
        ELSE Loaded([k |-> "num", v |-> bitsToUint(Take(slice.bits, operand.size))],
                    [slice EXCEPT !.bits = Drop(slice.bits, operand.size)])
    ELSE IF operand.type = "ref" THEN
        IF slice.refs = <<>> THEN Overflow("Slice: refs overflow", slice)
        ELSE Loaded([k |-> "slice", v |-> Head(slice.refs)],
                    [slice EXCEPT !.refs = Tail(slice.refs)])
    ELSE IF operand.type = "int" THEN
        IF operand.size > Len(slice.bits) THEN Overflow("Slice: bits overflow", slice)
        ELSE Loaded([k |-> "num", v |-> bitsToInt(Take(slice.bits, operand.size))],
                    [slice EXCEPT !.bits = Drop(slice.bits, operand.size)])
    ELSE IF operand.type = "pushint_long" THEN
        IF 5 > Len(slice.bits) THEN Overflow("Slice: bits overflow", slice)
        ELSE loadLong([slice EXCEPT !.bits = Drop(slice.bits, 5)],
                      8 * bitsToUint(Take(slice.bits, 5)) + 19)
    ELSE IF operand.type = "subslice" THEN
        \* line 63: refLength, its length field read first when there is one
        IF operand.refs_length_var_size > Len(slice.bits)
        THEN Overflow("Slice: bits overflow", slice)
        ELSE loadSubsliceLen(operand,
                 [slice EXCEPT !.bits = Drop(slice.bits, operand.refs_length_var_size)],
                 operand.refs_add
                     + bitsToUint(Take(slice.bits, operand.refs_length_var_size)))
    ELSE Overflow("unimplemented", slice)

\* the operand loop of nextInstruction: [err, operands, slice]
RECURSIVE loadOperands(_, _, _)
loadOperandsStep(decls, acc, r) ==
    IF r.err # NoErr
    THEN [err |-> "OpcodeParser: bad operand", operands |-> acc, slice |-> r.slice]
    ELSE loadOperands(Tail(decls), r.slice,
                      Append(acc, [name |-> Head(decls).name, value |-> r.value]))

loadOperands(decls, slice, acc) ==
    IF decls = <<>> THEN [err |-> NoErr, operands |-> acc, slice |-> slice]
    ELSE loadOperandsStep(decls, acc, loadOperand(Head(decls), slice))

withSpec(p, o) == [err |-> o.err, spec |-> p.insn, operands |-> o.operands, slice |-> o.slice]

afterPrefix(p) ==
    IF p.err # NoErr
    THEN [err |-> "OpcodeParser: prefix load error", spec |-> None, operands |-> <<>>,
          slice |-> p.slice]
    ELSE withSpec(p, loadOperands(p.insn.operands, p.slice, <<>>))

\* nextInstruction: [err, spec, operands, slice]
nextInstruction(slice) == afterPrefix(loadPrefix(slice))

(***************************************************************************)
(* Stack (src/stackAnalysis.ts).  A Stack object is carried as a context   *)
(*   [stack, guard, ctr, err, und]                                         *)
(* stack: the entries, bottom first; guard: NoGuard or [depth, branches];  *)
(* ctr: Stack._varCounter; err: the exception thrown so far (NoErr when    *)
(* none) and und its underflowDepth.  An operation on a context that has   *)
(* already thrown does nothing: the exception is propagating.              *)
(***************************************************************************)
NoGuard == [kind |-> "none"]
StackUnderflowError == "StackUnderflowError"
GuardUnresolvedError == "GuardUnresolvedError"

StackVariable(n) == [name |-> n, continuationMeta |-> NoFn]
varName(n) == "var" \o ToString(n)
argName(n) == "arg" \o ToString(n)

NewStack(entries, ctr) ==
    [stack |-> entries, guard |-> NoGuard, ctr |-> ctr, err |-> NoErr, und |-> 0]

\* no method has been called yet
\* decompileSlice not called
NoDec ==
    [pc |-> "idle", parsed |-> [ok |-> FALSE, methods |-> <<>>],
     dict |-> [ok |-> FALSE, methods |-> <<>>], pending |-> <<>>, lifted |-> <<>>,
     current |-> 0, methods |-> <<>>, program |-> [kind |-> "none"]]

NoCall == [op |-> "new", before |-> NewStack(<<>>, 0), err |-> NoErr, merged |-> <<>>,
           done |-> FALSE, base |-> <<>>]

Throw(x, e) == [x EXCEPT !.err = e]
ThrowUnderflow(x, d) == [x EXCEPT !.err = StackUnderflowError, !.und = d]

\* a pop that counts the guard's depth down without testing it
pop_unguarded(x) ==
    IF x.err # NoErr THEN [x |-> x, v |-> StackVariable("")]
    ELSE IF x.stack = <<>> THEN [x |-> ThrowUnderflow(x, 1), v |-> StackVariable("")]
    ELSE [x |-> [x EXCEPT !.guard = IF x.guard # NoGuard
                                    THEN [x.guard EXCEPT !.depth = x.guard.depth - 1]
                                    ELSE NoGuard,
                          !.stack = Take(x.stack, Len(x.stack) - 1)],
          v |-> x.stack[Len(x.stack)]]

\* a pop that tests the guard's depth and does not count it down
pop_keepDepth(x) ==
    IF x.err # NoErr THEN [x |-> x, v |-> StackVariable("")]
    ELSE IF x.guard # NoGuard /\ x.guard.depth <= 0
    THEN [x |-> Throw(x, GuardUnresolvedError), v |-> StackVariable("")]
    ELSE IF x.stack = <<>>
    THEN [x |-> ThrowUnderflow(x, 1), v |-> StackVariable("")]
    ELSE [x |-> [x EXCEPT !.stack = Take(x.stack, Len(x.stack) - 1)],
          v |-> x.stack[Len(x.stack)]]

\* pop(): [x, v]
pop(x) ==
    IF x.err # NoErr THEN [x |-> x, v |-> StackVariable("")]
    ELSE IF x.guard # NoGuard /\ x.guard.depth <= 0
    THEN [x |-> Throw(x, GuardUnresolvedError), v |-> StackVariable("")]
    ELSE LET g == IF x.guard # NoGuard
                  THEN [x.guard EXCEPT !.depth = x.guard.depth - 1]
                  ELSE NoGuard
         IN  IF x.stack = <<>>
             THEN [x |-> ThrowUnderflow([x EXCEPT !.guard = g], 1), v |-> StackVariable("")]
             ELSE [x |-> [x EXCEPT !.guard = g, !.stack = Take(x.stack, Len(x.stack) - 1)],
                   v |-> x.stack[Len(x.stack)]]

\* push() of a value that carries `meta`: [x, v]
pushWith(x, meta) ==
    IF x.err # NoErr THEN [x |-> x, v |-> StackVariable("")]
    ELSE LET v == [name |-> varName(x.ctr), continuationMeta |-> meta]
         IN  [x |-> [x EXCEPT !.ctr = x.ctr + 1,
                               !.stack = Append(x.stack, v),
                               !.guard = IF x.guard # NoGuard
                                         THEN [x.guard EXCEPT !.depth = x.guard.depth + 1]
                                         ELSE NoGuard],
              v |-> v]

push(x) == pushWith(x, NoFn)

\* parameters numbered upwards from the bottom of the stack
newArgs_ascending(start, length) ==
    [i \in 1..length |-> StackVariable(argName(start + i - 1))]

\* insertArgs(start, length): the new parameters, deepest first
newArgs(start, length) == Rev([i \in 1..length |-> StackVariable(argName(start + i - 1))])

insertArgs(stack, start, length) == newArgs(start, length) \o stack

\* an ensureGuard that keeps the depth of the guard it finds
ensureGuard_keepDepth(x, depthFromTop, armsCount) ==
    IF x.err # NoErr THEN x
    ELSE IF x.guard = NoGuard
    THEN [x EXCEPT !.guard = [depth |-> depthFromTop,
                              branches |-> [i \in 1..armsCount |-> <<>>]]]
    ELSE [x EXCEPT !.guard.branches =
             IF Len(@) < armsCount
             THEN @ \o [i \in 1..(armsCount - Len(@)) |-> <<>>]
             ELSE Take(@, armsCount)]

ensureGuard(x, depthFromTop, armsCount) ==
    IF x.err # NoErr THEN x
    ELSE IF x.guard = NoGuard
    THEN [x EXCEPT !.guard = [depth |-> depthFromTop,
                              branches |-> [i \in 1..armsCount |-> <<>>]]]
    ELSE LET n == Len(x.guard.branches)
         IN  [x EXCEPT !.guard =
                 [depth |-> Min(x.guard.depth, depthFromTop),
                  branches |-> IF n < armsCount
                               THEN x.guard.branches \o [i \in 1..(armsCount - n) |-> <<>>]
                               ELSE Take(x.guard.branches, armsCount)]]

\* appendToGuardArm(armIndex, vars), armIndex counted from 1 here
appendToGuardArm(x, armIndex, newVars) ==
    IF x.err # NoErr THEN x
    ELSE IF x.guard = NoGuard THEN Throw(x, "Guard is not initialized")
    ELSE IF armIndex < 1 \/ armIndex > Len(x.guard.branches)
    THEN Throw(x, "Guard arm index out of range")
    ELSE [x EXCEPT !.guard.branches[armIndex] = @ \o newVars]

\* a finalization that puts the merged variables on top of the stack
tryFinalizeGuard_onTop(x) ==
    IF x.err # NoErr \/ x.guard = NoGuard \/ x.guard.branches = <<>>
    THEN [x |-> x, merged |-> <<>>, done |-> FALSE]
    ELSE IF \E i \in 1..Len(x.guard.branches) :
                Len(x.guard.branches[i]) # Len(x.guard.branches[1])
    THEN [x |-> x, merged |-> <<>>, done |-> FALSE]
    ELSE [x |-> [x EXCEPT !.guard = NoGuard,
                          !.ctr = x.ctr + Len(x.guard.branches[1]),
                          !.stack = x.stack \o [i \in 1..Len(x.guard.branches[1]) |->
                                                   StackVariable(varName(x.ctr + i - 1))]],
          merged |-> [i \in 1..Len(x.guard.branches[1]) |->
                         StackVariable(varName(x.ctr + i - 1))],
          done |-> TRUE]

\* tryFinalizeGuard(): [x, merged, done]; done = FALSE is the result null
tryFinalizeGuard(x) ==
    IF x.err # NoErr \/ x.guard = NoGuard THEN [x |-> x, merged |-> <<>>, done |-> FALSE]
    ELSE LET lens == [i \in 1..Len(x.guard.branches) |-> Len(x.guard.branches[i])]
         IN  IF lens = <<>> THEN [x |-> x, merged |-> <<>>, done |-> FALSE]
             ELSE IF \E i \in 1..Len(lens) : lens[i] # lens[1]
             THEN [x |-> x, merged |-> <<>>, done |-> FALSE]
             ELSE IF lens[1] = 0
             THEN [x |-> [x EXCEPT !.guard = NoGuard], merged |-> <<>>, done |-> TRUE]
             ELSE LET count == lens[1]
                      insertIndex == Max(0, Len(x.stack) - x.guard.depth)
                      merged == [i \in 1..count |-> StackVariable(varName(x.ctr + i - 1))]
                  IN  [x |-> [x EXCEPT !.guard = NoGuard,
                                        !.ctr = x.ctr + count,
                                        !.stack = Take(x.stack, insertIndex) \o merged
                                                  \o Drop(x.stack, insertIndex)],
                       merged |-> merged, done |-> TRUE]

\* xchg(i, j) on the entries
xchg(x, i, j) ==
    IF x.err # NoErr THEN x
    ELSE LET ii == Len(x.stack) - 1 - i
             jj == Len(x.stack) - 1 - j
         IN  IF ii < 0 \/ jj < 0 THEN ThrowUnderflow(x, Max(-ii, -jj))
             ELSE [x EXCEPT !.stack = [x.stack EXCEPT ![ii + 1] = x.stack[jj + 1],
                                                      ![jj + 1] = x.stack[ii + 1]]]

RECURSIVE blkpush(_, _, _)
\* a blkpush that pushes a new entry of the same name in place of the entry
blkpush_fresh(x, n, j) ==
    IF x.err # NoErr \/ n <= 0 THEN x
    ELSE IF Len(x.stack) - 1 - j < 0 THEN ThrowUnderflow(x, -(Len(x.stack) - 1 - j))
    ELSE blkpush([x EXCEPT !.stack =
                     Append(x.stack, StackVariable(x.stack[Len(x.stack) - j].name))],
                 n - 1, j)

blkpush(x, n, j) ==
    IF x.err # NoErr \/ n <= 0 THEN x
    ELSE LET index == Len(x.stack) - 1 - j
         IN  IF index < 0 THEN ThrowUnderflow(x, -index)
             ELSE blkpush([x EXCEPT !.stack = Append(x.stack, x.stack[index + 1])], n - 1, j)

RECURSIVE blkpop(_, _, _)
blkpop(x, n, j) ==
    IF x.err # NoErr \/ n <= 0 THEN x
    ELSE LET y == xchg(x, 0, j)
         IN  IF y.err # NoErr THEN y
             ELSE blkpop([y EXCEPT !.stack = Take(y.stack, Len(y.stack) - 1)], n - 1, j)

reverse(x, length, j) ==
    IF x.err # NoErr THEN x
    ELSE LET endIndex == Len(x.stack) - 1 - j
             startIndex == endIndex + 1 - length
         IN  IF startIndex < 0 \/ endIndex < 0
             THEN ThrowUnderflow(x, Max(-startIndex, -endIndex))
             ELSE [x EXCEPT !.stack = Take(x.stack, startIndex)
                                      \o Rev(SubSeq(x.stack, startIndex + 1, endIndex + 1))
                                      \o Drop(x.stack, endIndex + 1)]

\* execBasicStackOperation / execStackOperation
execStackOperation(x, op) ==
    CASE op.op = "xchg" -> xchg(x, op.i, op.j)
      [] op.op = "blkpush" -> blkpush(x, op.i, op.j)
      [] op.op = "blkpop" -> blkpop(x, op.i, op.j)
      [] op.op = "reverse" -> reverse(x, op.i, op.j)
      [] op.op = "push" -> blkpush(x, 1, op.i)
      [] op.op = "pop" -> blkpop(x, 1, op.i)
      [] op.op = "xchg2" -> xchg(xchg(x, 1, op.i), 0, op.j)

Op(o, i, j) == [op |-> o, i |-> i, j |-> j]

\* the numeric operand `name` of the decoded operand list
operandNum(operands, name) ==
    LET ix == {k \in 1..Len(operands) : operands[k].name = name}
    IN  operands[CHOOSE k \in ix : TRUE].value.v

hasNumOperand(operands, name) ==
    \E k \in 1..Len(operands) : operands[k].name = name /\ operands[k].value.k = "num"

\* execStackInstruction, for the shuffle mnemonics of the catalog above
execStackInstruction(x, insn, operands) ==
    IF x.err # NoErr THEN x
    ELSE IF x.guard # NoGuard
    THEN Throw(x, "Stack operation is not allowed while conditional guard is active")
    ELSE CASE insn.mnemonic = "NOP" -> x
           [] insn.mnemonic = "PUSH" ->
                execStackOperation(x, Op("push", operandNum(operands, "i"), 0))
           [] insn.mnemonic = "POP" ->
                execStackOperation(x, Op("pop", operandNum(operands, "i"), 0))
           [] insn.mnemonic = "XCHG_0I" ->
                execStackOperation(x, Op("xchg", 0, operandNum(operands, "i")))
           [] insn.mnemonic = "XCHG_IJ" ->
                execStackOperation(x, Op("xchg", operandNum(operands, "i"),
                                         operandNum(operands, "j")))
           [] insn.mnemonic = "DROP2" -> execStackOperation(x, Op("blkpop", 2, 0))
           [] insn.mnemonic = "REVERSE" ->
                execStackOperation(x, Op("reverse", operandNum(operands, "i"),
                                         operandNum(operands, "j")))
           [] insn.mnemonic = "BLKDROP" ->
                execStackOperation(x, Op("blkpop", operandNum(operands, "i"), 0))
           [] insn.mnemonic = "BLKPUSH" ->
                execStackOperation(x, Op("blkpush", operandNum(operands, "i"),
                                         operandNum(operands, "j")))
           [] insn.mnemonic = "BLKDROP2" ->
                execStackOperation(
                    execStackOperation(
                        execStackOperation(x, Op("reverse",
                            operandNum(operands, "i") + operandNum(operands, "j"), 0)),
                        Op("blkpop", operandNum(operands, "i"), 0)),
                    Op("reverse", operandNum(operands, "j"), 0))
           [] insn.mnemonic = "DEPTH" -> push(x).x
           [] OTHER -> Throw(x, "Unknown stack insn")

(***************************************************************************)
(* IR values (src/core/ir.ts).  A function is                              *)
(*   [kind |-> "function", args, body, result, asmTail, tailSliceInfo,     *)
(*    decompileError, disassembleError]                                    *)
(* with args and result sequences of identifiers; a primitive is           *)
(*   [kind |-> "prim", mnemonic, inputs, operands, outputs]                *)
(* and its spec is the catalog entry of its mnemonic.  Static type hints   *)
(* are left out: they are copied from the catalog and nothing reads them.  *)
(***************************************************************************)
Ref(id, meta) == [kind |-> "ref", id |-> id, continuationMeta |-> meta]
Inline(op) == [kind |-> "inline", op |-> op]
Def(id) == [id |-> id]
Named(n, v) == [name |-> n, value |-> v]

\* convertOperandValue / convertOperands (src/frontend/lifter/operands.ts)
convertOperandValue(v) ==
    CASE v.k = "fn" -> [kind |-> "cont", value |-> v.v]
      [] v.k = "num" -> [kind |-> "int", value |-> v.v]
      [] v.k = "slice" -> [kind |-> "slice", value |-> v.v]
      [] OTHER -> [kind |-> "other", value |-> v.v]

convertOperands(ops) == [i \in 1..Len(ops) |-> Named(ops[i].name, convertOperandValue(ops[i].value))]

\* a test that knows only one of the two shuffle categories
isStackOp_basicOnly(spec) == spec.category = "stack_basic"

isStackOp(spec) == spec.category \in {"stack_basic", "stack_complex"}

\* the loops of collectStackInputs over one array input: count copies of the
\* reversed array_entry, given here as one flat sequence
RECURSIVE collectArray(_, _, _, _)
collectArrayStep(ents, acc, idx, r) ==
    IF Head(ents).type = "simple"
    THEN collectArray(Tail(ents), r.x,
             Append(acc, Named(Head(ents).name \o ToString(idx), Ref(r.v.name, NoFn))), idx + 1)
    ELSE collectArray(Tail(ents), r.x,
             Append(acc, Named("const_in_" \o ToString(idx), Ref(r.v.name, NoFn))), idx + 1)

collectArray(ents, x, acc, idx) ==
    IF x.err # NoErr \/ ents = <<>> THEN [x |-> x, inputs |-> acc]
    ELSE IF Head(ents).type \in {"simple", "const"}
    THEN collectArrayStep(ents, acc, idx, pop(x))
    ELSE [x |-> Throw(x, "not supported nested entry inside array input"), inputs |-> acc]

RECURSIVE collectFrom(_, _, _, _)
collectSimple(ents, operands, acc, r) ==
    collectFrom(Tail(ents), operands, r.x,
        Append(acc, Named(Head(ents).name, Ref(r.v.name, r.v.continuationMeta))))

collectArrayDone(ents, operands, acc, r) ==
    collectFrom(Tail(ents), operands, r.x, acc \o r.inputs)

collectFrom(ents, operands, x, acc) ==
    IF x.err # NoErr \/ ents = <<>> THEN [x |-> x, inputs |-> acc]
    ELSE IF Head(ents).type = "simple" THEN collectSimple(ents, operands, acc, pop(x))
    ELSE IF Head(ents).type = "array"
    THEN IF ~hasNumOperand(operands, Head(ents).length_var)
         THEN [x |-> Throw(x, "not supported dynamic array length"), inputs |-> acc]
         ELSE collectArrayDone(ents, operands, acc,
                  collectArray(Flatten([i \in 1..operandNum(operands, Head(ents).length_var) |->
                                           Rev(Head(ents).array_entry)]),
                               x, <<>>, 0))
    ELSE [x |-> Throw(x, "not supported stack input"), inputs |-> acc]

\* collectStackInputs: [x, inputs], popping from the top
collectStackInputs(spec, operands, x) == collectFrom(Rev(spec.inputs), operands, x, <<>>)

\* n pops in a row: [x, vs]
RECURSIVE popN(_, _, _)
popNStep(n, acc, r) == popN(r.x, n - 1, Append(acc, r.v))
popN(x, n, acc) ==
    IF x.err # NoErr \/ n = 0 THEN [x |-> x, vs |-> acc]
    ELSE popNStep(n, acc, pop(x))

RECURSIVE pushN(_, _, _)
pushNStep(n, acc, r) == pushN(r.x, n - 1, Append(acc, r.v))
pushN(x, n, acc) ==
    IF x.err # NoErr \/ n = 0 THEN [x |-> x, vs |-> acc]
    ELSE pushNStep(n, acc, push(x))

hasOperand(operands, name) == \E k \in 1..Len(operands) : operands[k].name = name
operandRaw(operands, name) == operands[CHOOSE k \in 1..Len(operands) : operands[k].name = name].value

\* lines 213-224: the target of a branch, [err, fn]
\* operands[varName] when it is truthy, else the continuationMeta of the stack
\* input of that name
firstNamed(stackInputs, name) ==
    stackInputs[CHOOSE k \in 1..Len(stackInputs) :
                   /\ stackInputs[k].name = name
                   /\ \A m \in 1..(k - 1) : stackInputs[m].name # name]

branchTarget(name, operands, stackInputs) ==
    IF hasOperand(operands, name)
       /\ ~(operandRaw(operands, name).k = "num" /\ operandRaw(operands, name).v = 0)
    THEN IF operandRaw(operands, name).k = "fn"
         THEN [err |-> NoErr, fn |-> operandRaw(operands, name).v]
         ELSE [err |-> "TypeError: target.args is undefined", fn |-> NoFn]
    ELSE IF \A k \in 1..Len(stackInputs) : stackInputs[k].name # name
    THEN [err |-> "no such input", fn |-> NoFn]
    ELSE IF firstNamed(stackInputs, name).value.continuationMeta = NoFn
    THEN [err |-> "continuation has no meta!", fn |-> NoFn]
    ELSE [err |-> NoErr, fn |-> firstNamed(stackInputs, name).value.continuationMeta]

\* lines 227-230: the inputs named after the target's parameters, last first
branchInputs(name, args, vs) ==
    [i \in 1..Len(args) |-> Named(name \o "_" \o Rev(args)[i], Ref(vs[i].name, NoFn))]

\* the branch loop of analyzeControlFlow; st = [inputs, maxRets, maxArgs, hasJumps]
RECURSIVE branchLoop(_, _, _, _, _)
\* lines 226-240, the pops having been made on a copy (peek)
branchPeeked(branches, operands, x, stackInputs, st, target, peek) ==
    IF peek.x.err # NoErr
    THEN \* only the exception reaches the caller
         [x |-> [x EXCEPT !.err = peek.x.err, !.und = peek.x.und], st |-> st]
    ELSE IF st.maxRets # -1
            /\ st.maxArgs - st.maxRets # Len(target.args) - Len(target.result)
    THEN [x |-> Throw(x, "bad branch"), st |-> st]
    ELSE branchLoop(Tail(branches), operands, x, stackInputs,
            [inputs |-> st.inputs \o branchInputs(Head(branches).var_name, target.args, peek.vs),
             maxArgs |-> IF Len(target.args) > st.maxArgs THEN Len(target.args) ELSE st.maxArgs,
             maxRets |-> IF Len(target.args) > st.maxArgs THEN Len(target.result)
                         ELSE st.maxRets,
             hasJumps |-> st.hasJumps \/ ~Head(branches).cc])

branchResolved(branches, operands, x, stackInputs, st, tr) ==
    IF tr.err # NoErr THEN [x |-> Throw(x, tr.err), st |-> st]
    ELSE branchPeeked(branches, operands, x, stackInputs, st, tr.fn,
                      popN(x, Len(tr.fn.args), <<>>))

branchLoop(branches, operands, x, stackInputs, st) ==
    IF x.err # NoErr \/ branches = <<>> THEN [x |-> x, st |-> st]
    ELSE branchResolved(branches, operands, x, stackInputs, st,
                        branchTarget(Head(branches).var_name, operands, stackInputs))

\* lines 243-245
finalMaxRets(st) == IF st.hasJumps \/ st.maxRets = -1 THEN 0 ELSE st.maxRets

\* lines 252-256
controlOutputs(inputs, pushed) ==
    [x |-> pushed.x, inputs |-> inputs,
     outputs |-> [i \in 1..Len(pushed.vs) |->
                     Named("out_" \o ToString(i - 1), Def(pushed.vs[i].name))]]

\* lines 243-257, the branch loop having ended in b
afterBranches(spec, b) ==
    IF b.x.err # NoErr THEN [x |-> b.x, inputs |-> b.st.inputs, outputs |-> <<>>]
    ELSE IF spec.nobranch /\ b.st.maxArgs # finalMaxRets(b.st) /\ ~b.st.hasJumps
    THEN [x |-> Throw(b.x, "for nobranch, args must be same as rets"),
          inputs |-> b.st.inputs, outputs |-> <<>>]
    ELSE controlOutputs(b.st.inputs,
             pushN(popN(b.x, b.st.maxArgs, <<>>).x, finalMaxRets(b.st), <<>>))

\* analyzeControlFlow: [x, inputs, outputs]
analyzeControlFlow(spec, operands, x, stackInputs) ==
    afterBranches(spec,
        branchLoop(spec.branches, operands, x, stackInputs,
                   [inputs |-> <<>>, maxRets |-> -1, maxArgs |-> 0, hasJumps |-> FALSE]))

\* Stack.allocVar() once per entry of one conditional arm: [x, vs]
RECURSIVE allocArm(_, _, _)
allocArm(arm, x, acc) ==
    IF x.err # NoErr \/ arm = <<>> THEN [x |-> x, vs |-> acc]
    ELSE IF Head(arm).type \in {"simple", "const"}
    THEN allocArm(Tail(arm), [x EXCEPT !.ctr = x.ctr + 1],
                  Append(acc, StackVariable(varName(x.ctr))))
    ELSE [x |-> Throw(x, "unsupported conditional branch entry"), vs |-> acc]

\* arms.forEach(...) of a conditional output, from arm idx on
RECURSIVE allocArms(_, _, _)
allocArmsStep(arms, idx, a) == allocArms(arms, idx + 1, appendToGuardArm(a.x, idx, a.vs))
allocArms(arms, idx, x) ==
    IF x.err # NoErr \/ idx > Len(arms) THEN x
    ELSE allocArmsStep(arms, idx, allocArm(arms[idx], x, <<>>))

\* the __cond outputs of merged variables, numbered from condOutCounter
condOutputs(merged, condOutCounter) ==
    [i \in 1..Len(merged) |->
        Named("__cond" \o ToString(condOutCounter + i - 1), Def(merged[i].name))]

\* the entries of one array output: count copies of array_entry, flat;
\* a = [stackOutputs, constCounter, pushedThisInsn, condOutCounter, idx]
RECURSIVE allocArray(_, _, _)
allocArrayStep(ents, a, r) ==
    IF Head(ents).type = "simple"
    THEN allocArray(Tail(ents), r.x,
            [a EXCEPT !.pushedThisInsn = @ + 1, !.idx = @ + 1,
                      !.stackOutputs = Append(@, Named(Head(ents).name \o ToString(a.idx),
                                                       Def(r.v.name)))])
    ELSE allocArray(Tail(ents), r.x,
            [a EXCEPT !.pushedThisInsn = @ + 1, !.constCounter = @ + 1,
                      !.stackOutputs = Append(@, Named("const" \o ToString(a.constCounter),
                                                       Def(r.v.name)))])

allocArray(ents, x, a) ==
    IF x.err # NoErr \/ ents = <<>> THEN [x |-> x, a |-> a]
    ELSE IF Head(ents).type \in {"simple", "const"}
    THEN allocArrayStep(ents, a, push(x))
    ELSE [x |-> Throw(x, "not supported nested entry inside array output"), a |-> a]

\* the arms of a conditional output (line 142)
armsOf(output) == output.match \o output.else

\* the output loop of allocateStackOutputs
RECURSIVE allocFrom(_, _, _, _, _)
allocSimple(outs, spec, operands, a, r) ==
    allocFrom(Tail(outs), spec, operands, r.x,
        [a EXCEPT !.pushedThisInsn = @ + 1,
                  !.stackOutputs = Append(@, Named(Head(outs).name, Def(r.v.name)))])

allocConst(outs, spec, operands, a, r) ==
    allocFrom(Tail(outs), spec, operands, r.x,
        [a EXCEPT !.pushedThisInsn = @ + 1, !.constCounter = @ + 1,
                  !.stackOutputs = Append(@, Named("const" \o ToString(a.constCounter),
                                                   Def(r.v.name)))])

allocArrayDone(outs, spec, operands, r) == allocFrom(Tail(outs), spec, operands, r.x, r.a)

\* a conditional output that names none of the merged variables
allocConditional_silent(outs, spec, operands, a, f) ==
    allocFrom(Tail(outs), spec, operands, f.x, a)

allocConditional(outs, spec, operands, a, f) ==
    allocFrom(Tail(outs), spec, operands, f.x,
        [a EXCEPT !.condOutCounter = @ + Len(f.merged),
                  !.stackOutputs = @ \o condOutputs(f.merged, a.condOutCounter)])

allocFrom(outs, spec, operands, x, a) ==
    IF x.err # NoErr \/ outs = <<>> THEN [x |-> x, a |-> a]
    ELSE CASE Head(outs).type = "simple" ->
               allocSimple(outs, spec, operands, a,
                   pushWith(x, IF spec.mnemonic \in {"PUSHCONT_SHORT", "PUSHCONT"}
                               THEN operandRaw(operands, "s").v ELSE NoFn))
          [] Head(outs).type = "const" -> allocConst(outs, spec, operands, a, push(x))
          [] Head(outs).type = "array" ->
               IF ~hasNumOperand(operands, Head(outs).length_var)
               THEN [x |-> Throw(x, "not supported dynamic array length"), a |-> a]
               ELSE allocArrayDone(outs, spec, operands,
                        allocArray(Flatten([i \in 1..operandNum(operands, Head(outs).length_var) |->
                                               Head(outs).array_entry]),
                                   x, [a EXCEPT !.idx = 0]))
          [] Head(outs).type = "conditional" ->
               allocConditional(outs, spec, operands, a,
                   tryFinalizeGuard(
                       allocArms(armsOf(Head(outs)), 1,
                                 ensureGuard(x, a.pushedThisInsn, Len(armsOf(Head(outs)))))))
          [] OTHER -> [x |-> Throw(x, "not supported stack output"), a |-> a]

\* lines 166-175, the loop having ended in r and the last tryFinalizeGuard in f
allocDone(r, f) ==
    [x |-> f.x, outputs |-> r.a.stackOutputs \o condOutputs(f.merged, r.a.condOutCounter)]

allocLoopDone(r) == allocDone(r, tryFinalizeGuard(r.x))

\* allocateStackOutputs: [x, outputs]
allocateStackOutputs(spec, operands, x) ==
    allocLoopDone(allocFrom(spec.outputs, spec, operands, x,
                            [stackOutputs |-> <<>>, constCounter |-> 0, pushedThisInsn |-> 0,
                             condOutCounter |-> 0, idx |-> 0]))

\* lines 191-193
makePrim(spec, operands, i, c, o) ==
    [x |-> tryFinalizeGuard(o.x).x,
     op |-> [kind |-> "prim", mnemonic |-> spec.mnemonic,
             inputs |-> i.inputs \o c.inputs,
             operands |-> convertOperands(operands),
             outputs |-> o.outputs \o c.outputs]]

withOutputs(spec, operands, i, c) ==
    makePrim(spec, operands, i, c, allocateStackOutputs(spec, operands, c.x))

withControlFlow(spec, operands, i) ==
    withOutputs(spec, operands, i, analyzeControlFlow(spec, operands, i.x, i.inputs))

\* buildOp: [x, op]; op = None for a shuffle (and when x.err says it threw)
buildOp(spec, operands, x) ==
    IF isStackOp(spec)
    THEN [x |-> execStackInstruction(x, spec, operands), op |-> None]
    ELSE withControlFlow(spec, operands, collectStackInputs(spec, operands, x))

(***************************************************************************)
(* lift() (src/frontend/lifter.ts).  One frame per active call:            *)
(*   slice, stack + guard (the Stack object `stack`), args, body,          *)
(*   given: the Slice object the caller passed, as it is now, and aliased: *)
(*   whether the local `slice` still names that object;                    *)
(*   decompileError, disassembleError, asmTail: the locals of lift;        *)
(*   spec, operands: the instruction of the current iteration;             *)
(*   t: the retry counter of the for loop;                                 *)
(*   pc: "loop"  at the while test (line 22)                               *)
(*       "hints" inside the try, after nextInstruction (lines 28-38)       *)
(*       "apply" in the retry loop (lines 45-65)                           *)
(*       "tail"  at line 68                                                *)
(*       "ret"   after the loop (line 77)                                  *)
(*       "done"  returned (the root call only; inner frames are popped)    *)
(***************************************************************************)
RetryCap == 10

NewFrame(slice) ==
    [slice |-> slice, given |-> slice, aliased |-> TRUE,
     stack |-> <<>>, guard |-> NoGuard, args |-> <<>>, body |-> <<>>,
     decompileError |-> NoErr, disassembleError |-> NoErr, asmTail |-> <<>>,
     spec |-> None, operands |-> <<>>, t |-> 0, pc |-> "loop"]

Top == frames[Len(frames)]
SetTop(f) == [frames EXCEPT ![Len(frames)] = f]

Names(vs) == [i \in 1..Len(vs) |-> vs[i].name]

\* lines 72-74: while no bits are left and a ref is, continue in the first ref
RECURSIVE chaseRefs(_)
chaseRefs(slice) ==
    IF Len(slice.bits) = 0 /\ Len(slice.refs) > 0 THEN chaseRefs(Head(slice.refs))
    ELSE slice

\* the operands the hint loop still has to lift: continuation-hinted, still a Slice
pendingHints(f) ==
    {k \in 1..Len(f.operands) :
        /\ \E d \in 1..Len(f.spec.operands) :
              f.spec.operands[d].name = f.operands[k].name /\ f.spec.operands[d].continuation
        /\ f.operands[k].value.k = "slice"}

nextHint(f) == CHOOSE i \in pendingHints(f) : \A j \in pendingHints(f) : i <= j

\* line 79: String(slice) when bits or refs remain, else undefined
tailSliceInfoOf(slice) ==
    IF Len(slice.bits) > 0 \/ Len(slice.refs) > 0
    THEN [kind |-> "slice", bits |-> slice.bits, refs |-> slice.refs]
    ELSE None

\* lines 77-90: the function a frame returns
returned(f) ==
    [kind |-> "function",
     args |-> Names(f.args),
     body |-> f.body,
     result |-> Names(f.stack),
     asmTail |-> f.asmTail,
     tailSliceInfo |-> tailSliceInfoOf(f.slice),
     decompileError |-> f.decompileError,
     disassembleError |-> f.disassembleError]

\* a catch that goes on with the loop instead of leaving it
decodeFailed_continue(f, d) ==
    [f EXCEPT !.slice = d.slice, !.given = IF f.aliased THEN d.slice ELSE @,
              !.disassembleError = d.err, !.pc = "loop"]

\* lines 39-42: catch, record, break
decodeFailed(f, d) ==
    [f EXCEPT !.slice = d.slice, !.given = IF f.aliased THEN d.slice ELSE @,
              !.disassembleError = d.err, !.pc = "ret"]

\* a loop that decodes from a copy and leaves its cursor where it was
decoded_keepSlice(f, d) ==
    IF d.err = NoErr
    THEN [f EXCEPT !.spec = d.spec, !.operands = d.operands, !.pc = "hints"]
    ELSE decodeFailed(f, d)

\* line 26, the decoder having returned or thrown d
decoded(f, d) ==
    IF d.err = NoErr
    THEN [f EXCEPT !.slice = d.slice, !.given = IF f.aliased THEN d.slice ELSE @,
                   !.spec = d.spec, !.operands = d.operands, !.pc = "hints"]
    ELSE decodeFailed(f, d)

\* a loop that applies every instruction, whatever went wrong before
afterHints_always(f) == "apply"

\* line 44: the retry loop is entered only while no decompileError is set
afterHints(f) == IF f.decompileError = NoErr THEN "apply" ELSE "tail"

\* a catch that hands on what it does not know instead of recording it
applyCatch_rethrow(e, t) ==
    IF e = StackUnderflowError /\ t < RetryCap THEN "retry"
    ELSE IF e \in {StackUnderflowError, GuardUnresolvedError} THEN "decompileError"
    ELSE "throw"

\* a catch whose cap is off by one
applyCatch_offByOne(e, t) ==
    IF e = StackUnderflowError /\ t <= RetryCap THEN "retry" ELSE "decompileError"

\* the catch of lines 52-64: what becomes of an exception thrown by an attempt
applyCatch(e, t) ==
    IF e = StackUnderflowError /\ t < RetryCap THEN "retry" ELSE "decompileError"

\* an attempt made on the stack itself: what was done before the throw stays
attempted_noCopy(f, b) ==
    IF b.x.err = NoErr
    THEN [f EXCEPT !.body = IF b.op # None THEN Append(f.body, b.op) ELSE f.body,
                   !.stack = b.x.stack, !.guard = b.x.guard, !.pc = "tail"]
    ELSE IF applyCatch(b.x.err, f.t) = "retry"
    THEN [f EXCEPT !.stack = insertArgs(b.x.stack, Len(f.args), b.x.und),
                   !.guard = b.x.guard,
                   !.args = newArgs(Len(f.args), b.x.und) \o f.args,
                   !.t = f.t + 1]
    ELSE [f EXCEPT !.stack = b.x.stack, !.guard = b.x.guard,
                   !.decompileError = b.x.err, !.pc = "tail"]

\* lines 47-51 and 52-64: the frame after an attempt that ended in b
attempted(f, b) ==
    IF b.x.err = NoErr
    THEN [f EXCEPT !.body = IF b.op # None THEN Append(f.body, b.op) ELSE f.body,
                   !.stack = b.x.stack, !.guard = b.x.guard, !.pc = "tail"]
    ELSE IF applyCatch(b.x.err, f.t) = "retry"
    THEN [f EXCEPT !.stack = insertArgs(f.stack, Len(f.args), b.x.und),
                   !.args = newArgs(Len(f.args), b.x.und) \o f.args,
                   !.t = f.t + 1]
    ELSE [f EXCEPT !.decompileError = b.x.err, !.pc = "tail"]

\* an exception that no catch of the innermost call handles: the caller's try
\* (line 39) catches it, or it leaves liftSliceToIR
Propagate(e) ==
    IF Len(frames) = 1
    THEN /\ thrown' = e
         /\ frames' = <<>>
    ELSE /\ frames' = [i \in 1..(Len(frames) - 1) |->
                          IF i = Len(frames) - 1
                          THEN [frames[i] EXCEPT !.disassembleError = e, !.pc = "ret"]
                          ELSE frames[i]]
         /\ UNCHANGED thrown

\* lines 22-26 and 39-42: the loop test and the decoding of one instruction
Decode ==
    /\ frames # <<>>
    /\ Top.pc = "loop"
    /\ frames' = SetTop(IF Len(Top.slice.bits) = 0
                        THEN [Top EXCEPT !.pc = "ret"]
                        ELSE decoded(Top, nextInstruction(Top.slice)))
    /\ UNCHANGED <<dec, runArg, stk, last, root, varCounter, ret, thrown, runs, firstRet, piped, piped2>>

\* lines 28-38: lift the next continuation operand, or leave the try
LiftOperands ==
    /\ frames # <<>>
    /\ Top.pc = "hints"
    /\ IF pendingHints(Top) # {}
       THEN frames' = Append(frames, NewFrame(Top.operands[nextHint(Top)].value.v))
       ELSE frames' = SetTop([Top EXCEPT !.t = 0, !.pc = afterHints(Top)])
    /\ UNCHANGED <<dec, runArg, stk, last, root, varCounter, ret, thrown, runs, firstRet, piped, piped2>>

\* the copy of line 47: the entries and the guard, on the shared counter
stackCopy(f) == [NewStack(f.stack, varCounter) EXCEPT !.guard = f.guard]

AttemptEnds(f, b) ==
    /\ varCounter' = b.x.ctr
    /\ IF b.x.err # NoErr /\ applyCatch(b.x.err, f.t) \notin {"retry", "decompileError"}
       THEN Propagate(b.x.err)
       ELSE frames' = SetTop(attempted(f, b)) /\ UNCHANGED thrown

\* lines 45-65: one attempt to apply the instruction
Attempt ==
    /\ frames # <<>>
    /\ Top.pc = "apply"
    /\ AttemptEnds(Top, buildOp(Top.spec, Top.operands, stackCopy(Top)))
    /\ UNCHANGED <<dec, runArg, stk, last, root, ret, runs, firstRet, piped, piped2>>

\* a raw tail that takes only the instruction that failed
asmTailAfter_firstOnly(f) ==
    IF f.decompileError # NoErr /\ f.asmTail = <<>>
    THEN <<[spec |-> f.spec.mnemonic, operands |-> convertOperands(f.operands)]>>
    ELSE f.asmTail

\* lines 68-70
asmTailAfter(f) ==
    IF f.decompileError # NoErr
    THEN Append(f.asmTail, [spec |-> f.spec.mnemonic, operands |-> convertOperands(f.operands)])
    ELSE f.asmTail

\* line 73: the first loadRef() of the chase takes a ref from the object the
\* local still names; the assignment makes the local name another object
givenAfterChase(f) ==
    IF f.aliased /\ Len(f.slice.bits) = 0 /\ Len(f.slice.refs) > 0
    THEN [f.given EXCEPT !.refs = Tail(@)]
    ELSE f.given

\* lines 68-74: the raw tail and the ref chase that end an iteration
TailAndChase ==
    /\ frames # <<>>
    /\ Top.pc = "tail"
    /\ frames' = SetTop([Top EXCEPT !.asmTail = asmTailAfter(Top),
                                    !.slice = chaseRefs(Top.slice),
                                    !.given = givenAfterChase(Top),
                                    !.aliased = Top.aliased /\ chaseRefs(Top.slice) = Top.slice,
                                    !.pc = "loop"])
    /\ UNCHANGED <<dec, runArg, stk, last, root, varCounter, ret, thrown, runs, firstRet, piped, piped2>>

\* line 36: the caller stores the lifted function in the operand it lifted
handBack(parent, fn) ==
    [parent EXCEPT !.operands[nextHint(parent)].value = [k |-> "fn", v |-> fn]]

\* lines 77-90: return; an inner call hands its function to its caller
Return ==
    /\ frames # <<>>
    /\ Top.pc = "ret"
    /\ IF Len(frames) = 1
       THEN /\ frames' = SetTop([Top EXCEPT !.pc = "done"])
            /\ ret' = returned(Top)
            /\ firstRet' = IF runs = 1 THEN returned(Top) ELSE firstRet
       ELSE /\ frames' = [i \in 1..(Len(frames) - 1) |->
                             IF i = Len(frames) - 1
                             THEN handBack(frames[i], returned(Top))
                             ELSE frames[i]]
            /\ UNCHANGED <<ret, firstRet>>
    /\ UNCHANGED <<dec, runArg, stk, last, root, varCounter, thrown, runs, piped, piped2>>

\* liftSliceToIR called again on a fresh slice of the same cell, in the same
\* process: Stack._varCounter is what the earlier call left
Relift ==
    /\ frames # <<>>
    /\ Top.pc = "done"
    /\ runs < MaxRuns
    /\ piped = NoFn
    /\ frames' = <<NewFrame(root)>>
    /\ ret' = NoFn
    /\ runs' = runs + 1
    /\ UNCHANGED <<dec, runArg, stk, last, root, varCounter, thrown, firstRet, piped, piped2>>

(***************************************************************************)
(* The inlining passes (src/opt/inline.ts) and the pipeline                *)
(* (src/middle/pipeline.ts), on IR values.  The passes share statement     *)
(* objects between their input and their output; here a statement is a     *)
(* value, which is the same as long as a statement is not changed after an *)
(* inline expression has taken it, and the passes change only statements   *)
(* that are still in the body.                                             *)
(***************************************************************************)
isConstCategory(cat) == cat \in {"const_int", "const_data"}

\* lines 14-22: a statement that enters producedBy
isConstProducer(st) ==
    Len(st.outputs) = 1 /\ isConstCategory(SpecOf(st.mnemonic).category)

isRefTo(arg, id) == arg.kind = "ref" /\ arg.id = id

\* lines 27-37: the use sites of id in one statement, inline inputs skipped
sitesIn(inputs, i, id) ==
    LET hits == SelectSeq([k \in 1..Len(inputs) |-> k],
                          LAMBDA k : isRefTo(inputs[k].value, id))
    IN  [n \in 1..Len(hits) |-> [stmtIndex |-> i, inputName |-> inputs[hits[n]].name]]

\* uses.get(id): the sites in body order
uses(body, id) == Flatten([i \in 1..Len(body) |-> sitesIn(body[i].inputs, i, id)])

\* inputs.find(i => i.name === name), then inp.value = v
replaceNamed(inputs, name, v) ==
    IF \E k \in 1..Len(inputs) : inputs[k].name = name
    THEN [inputs EXCEPT ![CHOOSE k \in 1..Len(inputs) :
                             /\ inputs[k].name = name
                             /\ \A m \in 1..(k - 1) : inputs[m].name # name].value = v]
    ELSE inputs

\* lines 49-54: one producer into all its sites
RECURSIVE inlineAt(_, _, _)
\* a replacement that stops after the first site
inlineAt_firstSite(body, sites, inline) ==
    IF sites = <<>> THEN body
    ELSE [body EXCEPT ![Head(sites).stmtIndex].inputs =
             replaceNamed(@, Head(sites).inputName, inline)]

inlineAt(body, sites, inline) ==
    IF sites = <<>> THEN body
    ELSE inlineAt([body EXCEPT ![Head(sites).stmtIndex].inputs =
                       replaceNamed(@, Head(sites).inputName, inline)],
                  Tail(sites), inline)

\* lines 45-59: producedBy.forEach, the sites being those of the body as given
RECURSIVE inlineProducers(_, _, _)
inlineProducers(orig, body, i) ==
    IF i > Len(orig) THEN body
    ELSE IF isConstProducer(orig[i])
    THEN inlineProducers(orig,
             inlineAt(body, uses(orig, orig[i].outputs[1].value.id), Inline(body[i])),
             i + 1)
    ELSE inlineProducers(orig, body, i + 1)

\* lines 46-58: toRemove
toRemove(orig, resultIds) ==
    {i \in 1..Len(orig) :
        /\ isConstProducer(orig[i])
        /\ uses(orig, orig[i].outputs[1].value.id) # <<>>
        /\ orig[i].outputs[1].value.id \notin resultIds}

\* lines 61-64: the statements that stay, in order
pick(body, idx) == [k \in 1..Len(idx) |-> body[idx[k]]]

without(body, rm) ==
    pick(body, SelectSeq([i \in 1..Len(body) |-> i], LAMBDA i : i \notin rm))

inlineConsts(fn) ==
    [fn EXCEPT !.body = without(inlineProducers(fn.body, fn.body, 1),
                                toRemove(fn.body, Range(fn.result)))]

\* lines 78-89
countUses(body, id) == Len(uses(body, id))

\* lines 98-110: may body[i - 1] be inlined into body[i]
qualifies(body, i, resultIds) ==
    /\ Len(body[i - 1].outputs) = 1
    /\ body[i - 1].outputs[1].value.id \notin resultIds
    /\ countUses(body, body[i - 1].outputs[1].value.id) = 1
    /\ \E k \in 1..Len(body[i].inputs) :
          isRefTo(body[i].inputs[k].value, body[i - 1].outputs[1].value.id)

\* lines 105-109: foundInputName
foundInputName(inputs, id) ==
    inputs[CHOOSE k \in 1..Len(inputs) :
              /\ isRefTo(inputs[k].value, id)
              /\ \A m \in 1..(k - 1) : ~isRefTo(inputs[m].value, id)].name

\* an inlining that leaves the producer in the body
inlineStep_keep(body, i) ==
    [body EXCEPT ![i].inputs =
        replaceNamed(@, foundInputName(body[i].inputs, body[i - 1].outputs[1].value.id),
                     Inline(body[i - 1]))]

\* lines 112-116: inline body[i - 1] into body[i] and splice it out
inlineStep(body, i) ==
    without([body EXCEPT ![i].inputs =
                replaceNamed(@, foundInputName(body[i].inputs,
                                               body[i - 1].outputs[1].value.id),
                             Inline(body[i - 1]))],
            {i - 1})

firstPair(body, resultIds) ==
    CHOOSE i \in 2..Len(body) :
        /\ qualifies(body, i, resultIds)
        /\ \A j \in 2..(i - 1) : ~qualifies(body, j, resultIds)

\* lines 91-121: while (changed)
RECURSIVE inlineLoop(_, _)
\* a pass that stops after its first inlining
inlineLoop_once(body, resultIds) ==
    IF \E i \in 2..Len(body) : qualifies(body, i, resultIds)
    THEN inlineStep(body, firstPair(body, resultIds))
    ELSE body

inlineLoop(body, resultIds) ==
    IF \E i \in 2..Len(body) : qualifies(body, i, resultIds)
    THEN inlineLoop(inlineStep(body, firstPair(body, resultIds)), resultIds)
    ELSE body

\* a pass that returns after its first inlining
inlinePrevSingleUse_firstOnly(fn) ==
    [fn EXCEPT !.body = IF \E i \in 2..Len(fn.body) : qualifies(fn.body, i, Range(fn.result))
                        THEN inlineStep(fn.body, firstPair(fn.body, Range(fn.result)))
                        ELSE fn.body]

inlinePrevSingleUse(fn) == [fn EXCEPT !.body = inlineLoop(fn.body, Range(fn.result))]

\* defaultPipeline: the passes of line 23, in the order of lines 46-48
applyPasses(fn) == inlinePrevSingleUse(inlineConsts(fn))

\* Pipeline.run and runOnOperand; no operand of the catalog above is a Hashmap,
\* so no cont_map operand arises
RECURSIVE Pipeline_run(_)
runOnOperand(v) ==
    IF v.kind = "cont" THEN [kind |-> "cont", value |-> Pipeline_run(v.value)] ELSE v

runOnOperands(st) ==
    [st EXCEPT !.operands =
        [k \in 1..Len(st.operands) |->
            Named(st.operands[k].name, runOnOperand(st.operands[k].value))]]

Pipeline_run(fn) ==
    applyPasses([fn EXCEPT !.body = [i \in 1..Len(fn.body) |-> runOnOperands(fn.body[i])]])

\* The statement objects of fn after inlinePrevSingleUse(fn'), fn' a function
\* whose body holds the objects of positions live of full: the pass changes the
\* inputs of the objects of its body in place (line 114) and splices its own
\* copy of the body (line 116).
RECURSIVE inlineLoopAll(_, _, _)
inlineLoopAll(full, live, resultIds) ==
    IF \E i \in 2..Len(live) : qualifies(pick(full, live), i, resultIds)
    THEN inlineLoopAll(
             [full EXCEPT ![live[firstPair(pick(full, live), resultIds)]].inputs =
                 replaceNamed(@,
                     foundInputName(full[live[firstPair(pick(full, live), resultIds)]].inputs,
                         full[live[firstPair(pick(full, live), resultIds) - 1]]
                             .outputs[1].value.id),
                     Inline(full[live[firstPair(pick(full, live), resultIds) - 1]]))],
             SelectSeq(live, LAMBDA k :
                 k # live[firstPair(pick(full, live), resultIds) - 1]),
             resultIds)
    ELSE full

\* The function object fn after Pipeline.run(fn): its body array is never
\* assigned, its statements are the objects the passes worked on
\* (fn.body.slice() copies the array, not the statements: inline.ts 10, 75),
\* with operands assigned at pipeline.ts 19 and inputs at inline.ts 53 and 114.
argAfterRun(fn) ==
    [fn EXCEPT !.body =
        inlineLoopAll(
            inlineProducers([i \in 1..Len(fn.body) |-> runOnOperands(fn.body[i])],
                            [i \in 1..Len(fn.body) |-> runOnOperands(fn.body[i])], 1),
            SelectSeq([i \in 1..Len(fn.body) |-> i],
                      LAMBDA i : i \notin toRemove(fn.body, Range(fn.result))),
            Range(fn.result))]

\* defaultPipeline().run(fn) on the function the lifter returned
RunPipeline ==
    /\ ret # NoFn
    /\ piped = NoFn
    /\ piped' = Pipeline_run(ret)
    /\ runArg' = argAfterRun(ret)
    /\ UNCHANGED <<dec, stk, last, root, frames, varCounter, ret, thrown, runs, firstRet, piped2>>

\* defaultPipeline().run(fn) on the function the pipeline returned
RunPipelineAgain ==
    /\ piped # NoFn
    /\ piped2 = NoFn
    /\ piped2' = Pipeline_run(piped)
    /\ UNCHANGED <<dec, runArg, stk, last, root, frames, varCounter, ret, thrown, runs, firstRet, piped>>

(***************************************************************************)
(* The inputs: root cells built from sequences of items.  An item is a     *)
(* chunk of bits and refs (an encoded instruction, or bits that decode to  *)
(* nothing) or a link: what follows a link is stored in a child cell, the  *)
(* next ref of the cell being built.                                       *)
(***************************************************************************)
Chunk(b, r) == [kind |-> "chunk", bits |-> b, refs |-> r]
Link == [kind |-> "link", bits |-> <<>>, refs |-> <<>>]

Enc(m) == prefixToBin(SpecOf(m).prefix)
I_NOP == Chunk(Enc("NOP"), <<>>)
I_ADD == Chunk(Enc("ADD"), <<>>)
I_INC == Chunk(Enc("INC"), <<>>)
I_DEPTH == Chunk(Enc("DEPTH"), <<>>)
I_DICTGET == Chunk(Enc("DICTGET"), <<>>)
I_NULLSWAPIFNOT == Chunk(Enc("NULLSWAPIFNOT"), <<>>)
I_EXECUTE == Chunk(Enc("EXECUTE"), <<>>)
I_PUSH(i) == Chunk(Enc("PUSH") \o intToBin(i, 4), <<>>)
I_POP(i) == Chunk(Enc("POP") \o intToBin(i, 4), <<>>)
I_BLKPUSH(i, j) == Chunk(Enc("BLKPUSH") \o intToBin(i, 4) \o intToBin(j, 4), <<>>)
I_BLKDROP2(i, j) == Chunk(Enc("BLKDROP2") \o intToBin(i, 4) \o intToBin(j, 4), <<>>)
I_XCHG_0I(i) == Chunk(Enc("XCHG_0I") \o intToBin(i, 4), <<>>)
I_PUSHINT_4(i) == Chunk(Enc("PUSHINT_4") \o intToBin(i, 4), <<>>)
I_TUPLE(n) == Chunk(Enc("TUPLE") \o intToBin(n, 4), <<>>)
I_PUSHCONT_SHORT(code) ==
    Chunk(Enc("PUSHCONT_SHORT") \o intToBin(Len(code) \div 8, 4) \o code, <<>>)
I_IFREF(cell) == Chunk(Enc("IFREF"), <<cell>>)
I_IFREFELSEREF(c1, c2) == Chunk(Enc("IFREFELSEREF"), <<c1, c2>>)
I_JMPX == Chunk(Enc("JMPX"), <<>>)
I_CONDAB == Chunk(Enc("CONDAB"), <<>>)
I_CONDAB2 == Chunk(Enc("CONDAB2"), <<>>)
I_CONDEMPTY == Chunk(Enc("CONDEMPTY"), <<>>)
I_CONDNONE == Chunk(Enc("CONDNONE"), <<>>)
I_CONDFILL == Chunk(Enc("CONDFILL"), <<>>)
I_SETCP(n) == Chunk(Enc("SETCP") \o intToBin(n, 8), <<>>)
I_SETCPX == Chunk(Enc("SETCPX"), <<>>)
I_DICTPUSHCONST(d, n) == Chunk(Enc("DICTPUSHCONST") \o intToBin(n, 10), <<d>>)
I_DICTIGETJMPZ == Chunk(Enc("DICTIGETJMPZ"), <<>>)
I_THROWARG(n) == Chunk(Enc("THROWARG") \o intToBin(n, 11), <<>>)
I_PUSHINT_8(x) == Chunk(Enc("PUSHINT_8") \o intToBin(x, 8), <<>>)
\* a long integer whose length field is l: 8 * l + 19 bits, here all 1 (-1)
I_PUSHINT_LONG(l) ==
    Chunk(Enc("PUSHINT_LONG") \o intToBin(l, 5) \o [i \in 1..(8 * l + 19) |-> 1], <<>>)
I_PUSHPOW2(x) == Chunk(Enc("PUSHPOW2") \o intToBin(x, 8), <<>>)
I_PUSHNAN == Chunk(Enc("PUSHNAN"), <<>>)
\* r + 1 refs and a payload of 1 + 8 * l bits: data, the tag 1, zeros
I_PUSHSLICE_REFS(r, l, data, cells) ==
    Chunk(Enc("PUSHSLICE_REFS") \o intToBin(r, 2) \o intToBin(l, 5) \o data \o <<1>>
              \o [i \in 1..(8 * l - Len(data)) |-> 0],
          cells)
\* a byte that is the prefix of no instruction of the catalog
Junk == Chunk(<<1, 1, 1, 1, 1, 0, 1, 1>>, <<>>)
\* the prefix of PUSHINT_4 without its operand
Truncated == Chunk(Enc("PUSHINT_4"), <<>>)

RECURSIVE Build(_)
Build(items) ==
    IF items = <<>> THEN EmptyCell
    ELSE IF Head(items).kind = "link" THEN Cell(<<>>, <<Build(Tail(items))>>)
    ELSE Cell(Head(items).bits \o Build(Tail(items)).bits,
              Head(items).refs \o Build(Tail(items)).refs)

SeqsUpTo(S, n) == UNION {[1..k -> S] : k \in 0..n}

\* the items of the programs that exercise the lifter
Menu ==
    { I_ADD, I_DEPTH, I_DICTGET, I_TUPLE(10), I_TUPLE(11), Junk, Truncated, Link,
      I_IFREF(Build(<<I_ADD>>)) }

\* the items of the programs that exercise the passes
PipeMenu ==
    { I_INC, I_ADD, I_PUSH(0), I_XCHG_0I(1), I_PUSHINT_4(1),
      I_PUSHCONT_SHORT(Build(<<I_PUSHINT_4(1), I_INC>>).bits) }

\* the items of the programs that exercise the conditional-alignment guard
GuardMenu ==
    { I_ADD, I_INC, I_DICTGET, I_NULLSWAPIFNOT, I_CONDAB, I_CONDAB2, I_CONDEMPTY,
      I_CONDNONE, I_CONDFILL, I_NOP, I_PUSHINT_4(1), I_BLKPUSH(1, 0) }

\* the items of the programs that exercise calls and jumps: continuations of
\* (parameters, results) = (0,1), (1,1), (0,0), (1,2), (2,1)
FlowMenu ==
    { I_PUSH(1), I_EXECUTE, I_JMPX,
      I_PUSHCONT_SHORT(Build(<<I_PUSHINT_4(1)>>).bits),
      I_PUSHCONT_SHORT(Build(<<I_INC>>).bits),
      I_PUSHCONT_SHORT(<<>>),
      I_PUSHCONT_SHORT(Build(<<I_INC, I_PUSHINT_4(1)>>).bits),
      I_IFREF(Build(<<I_PUSHINT_4(1)>>)),
      I_IFREF(Build(<<I_INC>>)),
      I_IFREFELSEREF(Build(<<I_PUSHINT_4(1)>>), EmptyCell),
      I_IFREFELSEREF(Build(<<I_INC>>), Build(<<I_ADD>>)),
      I_IFREFELSEREF(Build(<<I_ADD>>), Build(<<I_INC, I_INC>>)) }

\* the items of the programs that exercise the decoder: a range check that
\* fails just below from (00 is XCHG_0I's prefix with i = 0, decoded as NOP) and
\* just above to (83FF, FFF0), one that passes at its limit, and every kind of
\* operand
DecodeMenu ==
    { I_NOP, I_XCHG_0I(1), I_PUSHPOW2(254), I_PUSHNAN, I_SETCP(239), I_SETCPX,
      Chunk(<<1, 1, 1, 1, 1, 1, 1, 1, 1, 1, 1, 1, 0, 0, 0, 1>>, <<>>),
      I_PUSHINT_8(255), I_PUSHINT_LONG(0), I_PUSHINT_LONG(1),
      I_PUSHSLICE_REFS(1, 1, <<1, 0, 1>>, <<EmptyCell, Build(<<I_ADD>>)>>),
      I_PUSHSLICE_REFS(0, 0, <<>>, <<EmptyCell>>),
      I_IFREF(Build(<<I_NOP>>)) }

\* the items of the programs that exercise the shuffles: values and a
\* continuation to move, duplicate and drop, and a call through the stack
ShuffleMenu ==
    { I_PUSHINT_4(1), I_PUSHCONT_SHORT(Build(<<I_PUSHINT_4(1), I_INC>>).bits),
      I_BLKPUSH(2, 1), I_BLKPUSH(1, 0), I_BLKDROP2(1, 0), I_BLKDROP2(1, 1),
      I_XCHG_0I(1), I_EXECUTE }

Roots ==
    {Build(p) : p \in SeqsUpTo(Menu, MaxInsns)}
        \cup {Build(p) : p \in SeqsUpTo(ShuffleMenu, MaxShuffleInsns)}
        \cup {Build(p) : p \in SeqsUpTo(DecodeMenu, MaxDecodeInsns)}
        \cup {Build(p) : p \in SeqsUpTo(PipeMenu, MaxPipeInsns)}
        \cup {Build(p) : p \in SeqsUpTo(GuardMenu, MaxInsns)}
        \cup {Build(p) : p \in SeqsUpTo(FlowMenu, MaxFlowInsns)}

Init ==
    /\ root \in Roots
    /\ frames = <<NewFrame(root)>>
    /\ varCounter = 0
    /\ ret = NoFn
    /\ thrown = NoErr
    /\ runs = 1
    /\ firstRet = NoFn
    /\ piped = NoFn
    /\ piped2 = NoFn
    /\ runArg = NoFn
    /\ dec = NoDec
    /\ stk = NewStack(<<>>, 0)
    /\ last = NoCall

Next ==
    \/ Decode
    \/ LiftOperands
    \/ Attempt
    \/ TailAndChase
    \/ Return
    \/ Relift
    \/ RunPipeline
    \/ RunPipelineAgain

Spec == Init /\ [][Next]_vars

\* lift is sequential code: a call that has a next step takes it
LiftStep == Decode \/ LiftOperands \/ Attempt \/ TailAndChase \/ Return

\* one call of liftSliceToIR, run to its end
LiveInit ==
    /\ root \in {Build(p) : p \in SeqsUpTo(Menu, MaxLiveInsns)}
    /\ frames = <<NewFrame(root)>>
    /\ varCounter = 0
    /\ ret = NoFn
    /\ thrown = NoErr
    /\ runs = 1
    /\ firstRet = NoFn
    /\ piped = NoFn
    /\ piped2 = NoFn
    /\ runArg = NoFn
    /\ dec = NoDec
    /\ stk = NewStack(<<>>, 0)
    /\ last = NoCall

LiveNext ==
    \/ Decode
    \/ LiftOperands
    \/ Attempt
    \/ TailAndChase
    \/ Return

\* a call of lift is running: it has a next step
Running == frames # <<>> /\ Top.pc # "done"

\* weak fairness of LiftStep, that is WF_vars(LiftStep) with its ENABLED
\* written as the state predicate it is equal to: the steps of lift are
\* enabled exactly while a call is running
LiveSpec ==
    LiveInit /\ [][LiveNext]_vars /\ ([]<>(~Running) \/ []<><<LiftStep>>_vars)

(***************************************************************************)
(* The Stack class on its own (src/stackAnalysis.ts): one Stack object,    *)
(* created empty as lift() creates it, and its public methods called in    *)
(* any order.  An exception leaves the object as the method left it and is *)
(* recorded in last.err.  last.base holds the entries that lay below the   *)
(* boundary when the guard was created.                                    *)
(***************************************************************************)
lifterVars == <<root, frames, varCounter, ret, thrown, runs, firstRet, piped, piped2, runArg, dec>>

Called(op, before, e, merged, done, base) ==
    [op |-> op, before |-> before, err |-> e, merged |-> merged, done |-> done,
     base |-> base]

\* the object after a call that ended in context x
After(x) == [x EXCEPT !.err = NoErr, !.und = 0]

\* k calls of Stack.allocVar()
allocVars(x, k) == [i \in 1..k |-> StackVariable(varName(x.ctr + i - 1))]

StackPush ==
    /\ Len(stk.stack) < MaxDepth
    /\ stk.ctr < MaxVars
    /\ stk' = After(push(stk).x)
    /\ last' = Called("push", stk, push(stk).x.err, <<>>, FALSE, last.base)
    /\ UNCHANGED lifterVars

StackPop ==
    /\ stk' = After(pop(stk).x)
    /\ last' = Called("pop", stk, pop(stk).x.err, <<>>, FALSE, last.base)
    /\ UNCHANGED lifterVars

\* ensureGuard(depthFromTop, armsCount), depthFromTop counting values that are
\* on the stack
StackEnsureGuard ==
    /\ \E d \in 0..Len(stk.stack), n \in 0..MaxArms :
          /\ stk' = After(ensureGuard(stk, d, n))
          /\ last' = Called("ensureGuard", stk, NoErr, <<>>, FALSE,
                            IF stk.guard = NoGuard
                            THEN Take(stk.stack, Len(stk.stack) - d)
                            ELSE last.base)
    /\ UNCHANGED lifterVars

\* appendToGuardArm(armIndex, vars) with vars from Stack.allocVar()
StackAppendToGuardArm ==
    /\ stk.guard # NoGuard
    /\ \E idx \in 1..Len(stk.guard.branches), k \in 1..MaxArmLen :
          /\ Len(stk.guard.branches[idx]) + k <= MaxArmLen
          /\ stk.ctr + k <= MaxVars
          /\ stk' = After(appendToGuardArm([stk EXCEPT !.ctr = stk.ctr + k], idx,
                                           allocVars(stk, k)))
          /\ last' = Called("appendToGuardArm", stk, NoErr, <<>>, FALSE, last.base)
    /\ UNCHANGED lifterVars

StackTryFinalizeGuard ==
    /\ stk' = After(tryFinalizeGuard(stk).x)
    /\ last' = Called("tryFinalizeGuard", stk, NoErr, tryFinalizeGuard(stk).merged,
                      tryFinalizeGuard(stk).done,
                      IF tryFinalizeGuard(stk).done THEN <<>> ELSE last.base)
    /\ UNCHANGED lifterVars

\* the operands i and j as the decoder hands them over
NumOperands(i, j) ==
    <<[name |-> "i", value |-> [k |-> "num", v |-> i]],
      [name |-> "j", value |-> [k |-> "num", v |-> j]]>>

\* the shuffle instructions called on the object, each one primitive: the
\* mnemonic, its operands (0 where it has none) and the primitive it runs
ShuffleCalls ==
    {[mnemonic |-> "PUSH", i |-> i, j |-> 0, op |-> Op("blkpush", 1, i)] : i \in 0..MaxDepth}
    \cup {[mnemonic |-> "POP", i |-> i, j |-> 0, op |-> Op("blkpop", 1, i)] : i \in 0..MaxDepth}
    \cup {[mnemonic |-> "XCHG_0I", i |-> i, j |-> 0, op |-> Op("xchg", 0, i)] : i \in 1..MaxDepth}
    \cup {[mnemonic |-> "XCHG_IJ", i |-> 1, j |-> j, op |-> Op("xchg", 1, j)] : j \in 2..MaxDepth}
    \cup {[mnemonic |-> "DROP2", i |-> 0, j |-> 0, op |-> Op("blkpop", 2, 0)]}
    \cup {[mnemonic |-> "BLKDROP", i |-> i, j |-> 0, op |-> Op("blkpop", i, 0)] :
              i \in 0..(MaxDepth + 1)}
    \cup {[mnemonic |-> "BLKPUSH", i |-> i, j |-> j, op |-> Op("blkpush", i, j)] :
              i \in 1..MaxDepth, j \in 0..MaxDepth}
    \cup {[mnemonic |-> "REVERSE", i |-> i, j |-> j, op |-> Op("reverse", i, j)] :
              i \in 0..MaxDepth, j \in 0..MaxDepth}

\* execStackInstruction(insn, operands) with a shuffle instruction; the object
\* keeps what the primitive had done to it when it threw
StackExecStackInstruction ==
    /\ \E c \in ShuffleCalls :
          /\ Len(execStackInstruction(stk, c, NumOperands(c.i, c.j)).stack) <= MaxDepth
          /\ stk' = After(execStackInstruction(stk, c, NumOperands(c.i, c.j)))
          /\ last' = [op |-> "execStackInstruction", before |-> stk,
                      err |-> execStackInstruction(stk, c, NumOperands(c.i, c.j)).err,
                      merged |-> <<>>, done |-> FALSE, base |-> last.base,
                      insn |-> c,
                      und |-> execStackInstruction(stk, c, NumOperands(c.i, c.j)).und]
    /\ UNCHANGED lifterVars

StackInit ==
    /\ root = EmptyCell
    /\ frames = <<>>
    /\ varCounter = 0
    /\ ret = NoFn
    /\ thrown = NoErr
    /\ runs = 1
    /\ firstRet = NoFn
    /\ piped = NoFn
    /\ piped2 = NoFn
    /\ runArg = NoFn
    /\ dec = NoDec
    /\ stk = NewStack(<<>>, 0)
    /\ last = NoCall

StackNext ==
    \/ StackPush
    \/ StackPop
    \/ StackEnsureGuard
    \/ StackAppendToGuardArm
    \/ StackTryFinalizeGuard
    \/ StackExecStackInstruction

StackSpec == StackInit /\ [][StackNext]_vars

(***************************************************************************)
(* The loader (src/frontend/loader.ts) and Decompiler.decompileSlice.      *)
(* Hashmap.parse is code of ton3-core: what it makes of the dictionary     *)
(* cell is left open, it throws or yields some methods.                    *)
(***************************************************************************)
\* null, and a parse that threw (the catch of line 51 returns null)
NoDict == [ok |-> FALSE, methods |-> <<>>]

\* cloneSlice: a new cursor over the remaining bits and refs of s
cloneSlice(s) == Cell(s.bits, s.refs)

\* an entry check that lets code follow THROWARG
matchTHROWARG_anyTail(i4, parsed) ==
    IF i4.err # NoErr THEN NoDict
    ELSE IF i4.spec.mnemonic # "THROWARG" THEN NoDict
    ELSE parsed

\* lines 32-50: THROWARG, nothing left over, the dictionary parsed
matchTHROWARG(i4, parsed) ==
    IF i4.err # NoErr THEN NoDict
    ELSE IF i4.spec.mnemonic # "THROWARG" THEN NoDict
    ELSE IF Len(i4.slice.bits) # 0 \/ Len(i4.slice.refs) # 0 THEN NoDict
    ELSE parsed

\* lines 29-31
matchDICTIGETJMPZ(i3, parsed) ==
    IF i3.err # NoErr THEN NoDict
    ELSE IF i3.spec.mnemonic # "DICTIGETJMPZ" THEN NoDict
    ELSE matchTHROWARG(nextInstruction(i3.slice), parsed)

\* lines 24-28
matchDICTPUSHCONST(i2, parsed) ==
    IF i2.err # NoErr THEN NoDict
    ELSE IF i2.spec.mnemonic # "DICTPUSHCONST" THEN NoDict
    ELSE matchDICTIGETJMPZ(nextInstruction(i2.slice), parsed)

\* lines 21-23
matchSETCP(i1, parsed) ==
    IF i1.err # NoErr THEN NoDict
    ELSE IF i1.spec.mnemonic # "SETCP" THEN NoDict
    ELSE matchDICTPUSHCONST(nextInstruction(i1.slice), parsed)

\* tryDecodeFunctionDictFromRoot: NoDict for null, else the methods as a
\* sequence of [id, slice]; parsed is what Hashmap.parse and forEach yield,
\* NoDict when they throw
tryDecodeFunctionDictFromRoot(r, parsed) ==
    matchSETCP(nextInstruction(cloneSlice(r)), parsed)

\* what Hashmap.parse may make of a root: it throws, or yields the first k
\* refs of the root's first ref as the methods 0 .. k-1
HashmapParse(r) ==
    {NoDict} \cup
    (IF r.refs = <<>> THEN {[ok |-> TRUE, methods |-> <<>>]}
     ELSE {[ok |-> TRUE,
            methods |-> [i \in 1..k |-> [id |-> i - 1, slice |-> r.refs[1].refs[i]]]] :
              k \in 0..Len(r.refs[1].refs)})

\* decompileSlice, line 116 and the test of line 117
Dispatch ==
    /\ dec.pc = "idle"
    /\ \E parsed \in HashmapParse(root) :
          dec' = [dec EXCEPT
                    !.parsed = parsed,
                    !.dict = tryDecodeFunctionDictFromRoot(root, parsed),
                    !.pc = IF tryDecodeFunctionDictFromRoot(root, parsed).ok
                           THEN "multi" ELSE "single",
                    !.pending = IF tryDecodeFunctionDictFromRoot(root, parsed).ok
                                THEN tryDecodeFunctionDictFromRoot(root, parsed).methods
                                ELSE <<[id |-> 0, slice |-> root]>>]
    /\ UNCHANGED <<root, frames, varCounter, ret, thrown, runs, firstRet, piped, piped2,
                   runArg, stk, last>>

\* lines 120 and 125: liftSliceToIR(contSlice), liftSliceToIR(root)
CallLift ==
    /\ dec.pc \in {"single", "multi"}
    /\ frames = <<>>
    /\ thrown = NoErr
    /\ dec.pending # <<>>
    /\ frames' = <<NewFrame(Head(dec.pending).slice)>>
    /\ ret' = NoFn
    /\ dec' = [dec EXCEPT !.current = Head(dec.pending).id,
                          !.lifted = Append(@, Head(dec.pending).slice),
                          !.pending = Tail(@)]
    /\ UNCHANGED <<root, varCounter, thrown, runs, firstRet, piped, piped2, runArg, stk, last>>

\* lines 121 and 126: runMiddle on what the lift returned
RunMiddle ==
    /\ dec.pc \in {"single", "multi"}
    /\ frames # <<>>
    /\ Top.pc = "done"
    /\ dec' = [dec EXCEPT !.methods = Append(@, [id |-> dec.current,
                                                  fn |-> Pipeline_run(ret)])]
    /\ frames' = <<>>
    /\ UNCHANGED <<root, varCounter, ret, thrown, runs, firstRet, piped, piped2, runArg,
                   stk, last>>

\* lines 123 and 126: the program returned
ReturnProgram ==
    /\ dec.pc \in {"single", "multi"}
    /\ frames = <<>>
    /\ thrown = NoErr
    /\ dec.pending = <<>>
    /\ dec' = [dec EXCEPT
                 !.pc = "returned",
                 !.program = IF dec.pc = "multi"
                             THEN [kind |-> "multi", methods |-> dec.methods,
                                   entry |-> NoFn]
                             ELSE [kind |-> "single", methods |-> <<>>,
                                   entry |-> dec.methods[1].fn]]
    /\ UNCHANGED <<root, frames, varCounter, ret, thrown, runs, firstRet, piped, piped2,
                   runArg, stk, last>>

\* the method dispatcher a compiler emits
Dispatcher(d) == <<I_SETCP(0), I_DICTPUSHCONST(d, 19), I_DICTIGETJMPZ, I_THROWARG(11)>>

\* a dictionary cell with two continuations
DictCell == Cell(<<1>>, <<Build(<<I_INC>>), Build(<<I_PUSHINT_4(1), I_ADD>>)>>)

\* the items of the roots that exercise the loader
LoaderMenu ==
    { I_SETCP(0), I_SETCPX, I_DICTPUSHCONST(DictCell, 19), I_DICTIGETJMPZ, I_THROWARG(11),
      I_ADD, Junk, Link }

\* the dispatcher, its beginnings and what differs from it in one item, each
\* followed by up to MaxTail more items
LoaderRoots ==
    {Build(p \o t) :
        p \in {Take(Dispatcher(DictCell), k) : k \in 0..4}
                 \cup {[Dispatcher(DictCell) EXCEPT ![i] = x] : i \in 1..4, x \in LoaderMenu},
        t \in SeqsUpTo(LoaderMenu, MaxTail)}

LoaderInit ==
    /\ root \in LoaderRoots
    /\ frames = <<>>
    /\ varCounter = 0
    /\ ret = NoFn
    /\ thrown = NoErr
    /\ runs = 1
    /\ firstRet = NoFn
    /\ piped = NoFn
    /\ piped2 = NoFn
    /\ runArg = NoFn
    /\ dec = NoDec
    /\ stk = NewStack(<<>>, 0)
    /\ last = NoCall

LoaderNext ==
    \/ Dispatch
    \/ CallLift
    \/ Decode
    \/ LiftOperands
    \/ Attempt
    \/ TailAndChase
    \/ Return
    \/ RunMiddle
    \/ ReturnProgram

LoaderSpec == LoaderInit /\ [][LoaderNext]_vars

(***************************************************************************)
(* What the properties below speak of.                                     *)
(***************************************************************************)
\* the frame of the same call after a step that keeps the call stack's height
TopAfter == frames'[Len(frames')]

\* the step decodes an instruction of the innermost call, and the decoder throws
DecodeFails ==
    /\ frames # <<>>
    /\ Top.pc = "loop"
    /\ Len(Top.slice.bits) > 0
    /\ nextInstruction(Top.slice).err # NoErr

\* the step is an attempt of the innermost call
Attempting == frames # <<>> /\ Top.pc = "apply"

attemptError == buildOp(Top.spec, Top.operands, stackCopy(Top)).x.err

\* the ids of the plain references among inputs, at any depth of inline nesting
RECURSIVE refIds(_)
refIds(inputs) ==
    UNION {IF inputs[k].value.kind = "ref" THEN {inputs[k].value.id}
           ELSE refIds(inputs[k].value.op.inputs) : k \in 1..Len(inputs)}

outIds(st) == {st.outputs[k].value.id : k \in 1..Len(st.outputs)}

\* the defining sites of id among the parameters and the outputs of the first n
\* statements of fn
defSites(fn, id, n) ==
    {<<0, k>> : k \in {a \in 1..Len(fn.args) : fn.args[a] = id}}
        \cup UNION {{<<j, k>> : k \in {o \in 1..Len(fn.body[j].outputs) :
                                           fn.body[j].outputs[o].value.id = id}} :
                    j \in 1..n}

\* every reference of fn names a parameter or an output of an earlier statement
WellFormed(fn) ==
    /\ \A i \in 1..Len(fn.body) :
          \A id \in refIds(fn.body[i].inputs) :
             id \in Range(fn.args) \/ \E j \in 1..(i - 1) : id \in outIds(fn.body[j])
    /\ \A id \in Range(fn.result) :
          id \in Range(fn.args) \/ \E j \in 1..Len(fn.body) : id \in outIds(fn.body[j])

\* no statement that produces an entry of result has left the body
KeepsResultProducers(before, after) ==
    \A id \in Range(before.result) :
        (\E j \in 1..Len(before.body) : id \in outIds(before.body[j]))
            => \E j \in 1..Len(after.body) : id \in outIds(after.body[j])

\* the continuation operands of the statements of fn
contOperands(fn) ==
    UNION {{fn.body[i].operands[k].value.value :
               k \in {o \in 1..Len(fn.body[i].operands) :
                         fn.body[i].operands[o].value.kind = "cont"}} :
           i \in 1..Len(fn.body)}

\* what C8 says of one call across one step
Frozen(f, g) ==
    /\ g.decompileError = f.decompileError
    /\ g.body = f.body
    /\ g.args = f.args
    /\ g.stack = f.stack
    /\ g.guard = f.guard
    /\ g.pc # "apply"
    /\ g.asmTail = IF f.pc = "tail"
                   THEN Append(f.asmTail, [spec |-> f.spec.mnemonic,
                                           operands |-> convertOperands(f.operands)])
                   ELSE f.asmTail

(***************************************************************************)
(* The claims.                                                             *)
(***************************************************************************)
\* C1: liftSliceToIR never throws; an exception of the decoder ends up in
\* disassembleError and an exception of an attempt that is not retried (an
\* underflow past the cap, a guard access, an unsupported shape, inconsistent
\* branches) ends up in decompileError of the call it happened in.
C1_Total ==
    [][ /\ thrown' = NoErr
        /\ DecodeFails =>
              /\ Len(frames') = Len(frames)
              /\ TopAfter.disassembleError = nextInstruction(Top.slice).err
              /\ TopAfter.decompileError = Top.decompileError
        /\ (Attempting /\ attemptError # NoErr
                /\ ~(attemptError = StackUnderflowError /\ Top.t < 10)) =>
              /\ Len(frames') = Len(frames)
              /\ TopAfter.decompileError = attemptError
              /\ TopAfter.disassembleError = Top.disassembleError ]_vars

\* C1 witness: a returned function that carries both kinds of error
C1_Witness ==
    /\ ret # NoFn
    /\ thrown = NoErr
    /\ ret.decompileError # NoErr
    /\ ret.disassembleError # NoErr

\* C2: in the function the lifter returns, every id referenced by a body input
\* or listed in result has exactly one defining site, a parameter or an output
\* of an earlier statement.
C2_OneDefiningSite ==
    ret # NoFn =>
        /\ \A i \in 1..Len(ret.body) :
              \A id \in refIds(ret.body[i].inputs) :
                 Cardinality(defSites(ret, id, i - 1)) = 1
        /\ \A id \in Range(ret.result) :
              Cardinality(defSites(ret, id, Len(ret.body))) = 1

\* C3: a function returned while a guard is still unfinalized has
\* decompileError set.
C3_NoDanglingGuard ==
    (ret # NoFn /\ Top.guard # NoGuard) => ret.decompileError # NoErr

\* C4: lifting the same cell a second time in the same process returns the
\* function the first lift returned, identifiers included.
C4_SameIdentifiers ==
    (runs = 2 /\ ret # NoFn) => ret = firstRet

\* C5: after inlineConsts, after inlinePrevSingleUse and after the default
\* pipeline, every plain reference (top-level, nested in an inline expression,
\* or in result) of a function that was well formed still names a parameter or
\* an output of a statement still in the body before its user, and the
\* producers of the result entries are still in the body.
C5_NoDanglingReference ==
    (ret # NoFn /\ WellFormed(ret)) =>
        /\ WellFormed(inlineConsts(ret)) /\ KeepsResultProducers(ret, inlineConsts(ret))
        /\ WellFormed(inlinePrevSingleUse(ret))
        /\ KeepsResultProducers(ret, inlinePrevSingleUse(ret))
        /\ piped # NoFn => WellFormed(piped) /\ KeepsResultProducers(ret, piped)

\* C6: the default pipeline run on its own output returns that output, the
\* continuation operands included.
C6_Idempotent ==
    piped2 # NoFn => piped2 = piped

\* C6 witness: the pipeline has run twice on a function whose first run inlined
\* a statement at top level and one inside a continuation operand
C6_Witness ==
    /\ piped2 # NoFn
    /\ Len(piped.body) < Len(ret.body)
    /\ \E c \in contOperands(piped) : \E d \in contOperands(ret) :
          Len(c.body) < Len(d.body)

\* C7: an attempt is retried only while fewer than 10 retries were made, the
\* attempt after the 10th retry is the last one, and an underflow becomes the
\* decompileError only in that attempt: with 10 or fewer retries needed, the
\* instruction is lifted without error.
C7_RetryCap ==
    [][ Attempting =>
          /\ Len(frames') = Len(frames)
          /\ Top.t <= 10
          /\ TopAfter.pc = "apply" => (TopAfter.t = Top.t + 1 /\ Top.t < 10)
          /\ Top.t = 10 => TopAfter.pc = "tail"
          /\ (attemptError = StackUnderflowError /\ Top.t = 10) =>
                TopAfter.decompileError = StackUnderflowError
          /\ (attemptError = StackUnderflowError /\ Top.t < 10) =>
                /\ TopAfter.decompileError = NoErr
                /\ TopAfter.pc = "apply"
          /\ attemptError = NoErr =>
                /\ TopAfter.decompileError = NoErr
                /\ Len(TopAfter.body) = Len(Top.body) + 1 \/ isStackOp(Top.spec) ]_vars

\* C7 witness: an instruction lifted without error by the attempt that follows
\* the 10th retry
C7_Witness ==
    /\ frames # <<>>
    /\ Top.pc = "tail"
    /\ Top.t = 10
    /\ Top.decompileError = NoErr
    /\ Len(Top.args) = 10
    /\ Len(Top.body) = 1

\* C8: once a call has its decompileError, the error, body, args and the
\* symbolic stack of that call no longer change, no instruction is applied any
\* more, and each instruction decoded from the failing one on is appended to
\* asmTail as it ends its iteration.
C8_Frozen ==
    [][ runs' = runs =>
          \A i \in 1..Min(Len(frames), Len(frames')) :
             /\ frames[i].decompileError # NoErr => Frozen(frames[i], frames'[i])
             /\ (frames[i].decompileError = NoErr /\ frames'[i].decompileError # NoErr) =>
                   /\ frames'[i].pc = "tail"
                   /\ frames'[i].spec = frames[i].spec
                   /\ frames'[i].operands = frames[i].operands
                   /\ frames'[i].body = frames[i].body
                   /\ frames'[i].args = frames[i].args
                   /\ frames'[i].stack = frames[i].stack ]_vars

\* C8 witness: a returned function whose asmTail holds the failing instruction
\* and a later one
C8_Witness ==
    /\ ret # NoFn
    /\ ret.decompileError # NoErr
    /\ Len(ret.asmTail) >= 2
    /\ Len(ret.body) >= 1

C10_NothingUndecoded ==
    (ret # NoFn /\ ret.disassembleError = NoErr) => ret.tailSliceInfo = None

(***************************************************************************)
(* What the properties of the lifted statements speak of.                  *)
(***************************************************************************)
\* the id bound to the input `name` of statement st
boundTo(st, name) ==
    st.inputs[CHOOSE k \in 1..Len(st.inputs) : st.inputs[k].name = name].value.id

inputNames(st) == [k \in 1..Len(st.inputs) |-> st.inputs[k].name]
outputNames(st) == [k \in 1..Len(st.outputs) |-> st.outputs[k].name]
entryNames(ents) == [k \in 1..Len(ents) |-> ents[k].name]

\* the stack inputs of the catalog entry are all plain named values
plainInputs(spec) == \A k \in 1..Len(spec.inputs) : spec.inputs[k].type = "simple"

\* arg(n-1), ..., arg0
argsDown(n) == [i \in 1..n |-> argName(n - i)]

\* C11: ADD alone on an empty stack is lifted to args [arg0, arg1], one
\* statement with x bound to arg1 and y to arg0, and a result that holds
\* exactly the output of that statement.
C11_TwoInputs ==
    (root = Build(<<I_ADD>>) /\ ret # NoFn) =>
        /\ ret.args = <<"arg0", "arg1">>
        /\ Len(ret.body) = 1
        /\ ret.body[1].mnemonic = "ADD"
        /\ boundTo(ret.body[1], "x") = "arg1"
        /\ boundTo(ret.body[1], "y") = "arg0"
        /\ Len(ret.body[1].outputs) = 1
        /\ ret.result = <<ret.body[1].outputs[1].value.id>>

\* C12: in every statement the lifter emits, the stack inputs are listed in
\* the order of the catalog entry's stack inputs, the deepest first and the
\* top of the stack last.
C12_InputOrder ==
    ret # NoFn =>
        \A i \in 1..Len(ret.body) :
            plainInputs(SpecOf(ret.body[i].mnemonic)) =>
                Take(inputNames(ret.body[i]), Len(SpecOf(ret.body[i].mnemonic).inputs))
                    = entryNames(SpecOf(ret.body[i].mnemonic).inputs)

\* the parameters of a call are arg0 .. arg(n-1), each once
ArgsExact(names) ==
    /\ Cardinality(Range(names)) = Len(names)
    /\ Range(names) = {argName(i) : i \in 0..(Len(names) - 1)}

\* between f and g, k parameters numbered on from those of f were put under
\* the entries of f's stack, the highest-numbered deepest, and entered in args
InsertedBelow(f, g, k) ==
    /\ k > 0
    /\ g.stack = [i \in 1..k |-> StackVariable(argName(Len(f.args) + k - i))] \o f.stack
    /\ Range(Names(g.args)) =
           Range(Names(f.args)) \cup {argName(Len(f.args) + i - 1) : i \in 1..k}

\* C13: a batch of parameters synthesized on underflow goes below all the
\* entries of the stack with the highest-numbered parameter deepest, and the
\* args of a call are always arg0 .. arg(n-1), each once, one per parameter
\* inserted into the stack.
C13_Parameters ==
    [][ /\ \A i \in 1..Len(frames') : ArgsExact(Names(frames'[i].args))
        /\ ret' # NoFn => ArgsExact(ret'.args)
        /\ (Attempting /\ Len(frames') = Len(frames) /\ TopAfter.args # Top.args) =>
              InsertedBelow(Top, TopAfter, Len(TopAfter.args) - Len(Top.args))
        /\ (Attempting /\ Len(frames') = Len(frames) /\ TopAfter.args = Top.args) =>
              \A i \in 1..Len(TopAfter.stack) :
                  TopAfter.stack[i].name \in Range(Names(Top.args))
                      => TopAfter.stack[i] \in Range(Top.stack)
      ]_vars

\* C13 witness: a retry has put a second parameter below a value that was on
\* the stack already, and another call has received a batch of two at once
C13_Witness ==
    /\ frames # <<>>
    /\ Top.pc = "apply"
    /\ Top.t = 1
    /\ Names(Top.args) = <<"arg1", "arg0">>
    /\ Len(Top.stack) = 2
    /\ Top.stack[1].name = "arg1"
    /\ Top.stack[2].name \notin {"arg0", "arg1"}

(***************************************************************************)
(* What the properties of calls and jumps speak of: the instruction the    *)
(* innermost call is about to apply, its stack inputs and its targets.     *)
(***************************************************************************)
\* the stack inputs the attempt collects, and the stack they leave
inputsNow == collectStackInputs(Top.spec, Top.operands, stackCopy(Top))

\* the targets of the branches of the instruction, [err, fn] each
targetsNow ==
    [k \in 1..Len(Top.spec.branches) |->
        branchTarget(Top.spec.branches[k].var_name, Top.operands, inputsNow.inputs)]

\* the innermost call is about to apply an instruction with branches whose
\* targets are all known
Branching ==
    /\ Attempting
    /\ Top.spec.branches # <<>>
    /\ inputsNow.x.err = NoErr
    /\ \A k \in 1..Len(targetsNow) : targetsNow[k].err = NoErr

delta(fn) == Len(fn.args) - Len(fn.result)

\* the first target with the most parameters
widest(ts) ==
    ts[CHOOSE k \in 1..Len(ts) :
          /\ \A j \in 1..Len(ts) : Len(ts[j].fn.args) <= Len(ts[k].fn.args)
          /\ \A j \in 1..(k - 1) : Len(ts[j].fn.args) < Len(ts[k].fn.args)].fn

callStyle(spec) == \A k \in 1..Len(spec.branches) : spec.branches[k].cc

\* the outputs out_0 .. out_(n-1) of a statement, as stack entries
outNamed(st) ==
    SelectSeq(st.outputs, LAMBDA o : o.name \in {"out_" \o ToString(i) : i \in 0..9})

\* C14: buildOp accepts an instruction with branch targets only if
\* args.length - result.length is the same for all its targets and, when the
\* instruction promises fall-through and no branch is jump-style, only if
\* maxArgs = maxRets; what it does not accept ends in an error that is not
\* retried.
C14_ConsistentBranches ==
    Branching =>
        /\ attemptError = NoErr =>
              /\ \A j, k \in 1..Len(targetsNow) :
                    delta(targetsNow[j].fn) = delta(targetsNow[k].fn)
              /\ (Top.spec.nobranch /\ callStyle(Top.spec)) =>
                    Len(widest(targetsNow).args) = Len(widest(targetsNow).result)
        /\ attemptError \notin {NoErr, StackUnderflowError, GuardUnresolvedError} =>
              applyCatch(attemptError, 0) = "decompileError"

\* C15: a call-style instruction whose target has a parameters and r results
\* pops a values for the call and pushes r fresh outputs out_0 .. out_(r-1),
\* for every a >= 0 and r >= 0; with a jump-style branch no output is pushed.
C15_CallOutputs ==
    (Branching /\ Len(targetsNow) = 1 /\ attemptError = NoErr) =>
        LET fn == targetsNow[1].fn
            b == buildOp(Top.spec, Top.operands, stackCopy(Top))
        IN  IF callStyle(Top.spec)
            THEN /\ [k \in 1..Len(outNamed(b.op)) |-> outNamed(b.op)[k].name]
                        = [k \in 1..Len(fn.result) |-> "out_" \o ToString(k - 1)]
                 /\ Len(b.x.stack) = Len(inputsNow.x.stack) - Len(fn.args) + Len(fn.result)
                 /\ Take(b.x.stack, Len(inputsNow.x.stack) - Len(fn.args))
                        = Take(inputsNow.x.stack, Len(inputsNow.x.stack) - Len(fn.args))
            ELSE /\ outNamed(b.op) = <<>>
                 /\ b.x.stack = Take(inputsNow.x.stack, Len(inputsNow.x.stack) - Len(fn.args))

(***************************************************************************)
(* What the properties of the Stack class speak of.                        *)
(***************************************************************************)
\* the guard of x has arms and they all hold the same number of variables
aligned(x) ==
    /\ x.guard # NoGuard
    /\ x.guard.branches # <<>>
    /\ \A i, j \in 1..Len(x.guard.branches) :
          Len(x.guard.branches[i]) = Len(x.guard.branches[j])

\* every variable x holds, on its stack or pending in an arm of its guard
heldBy(x) ==
    Range(x.stack) \cup
        (IF x.guard = NoGuard THEN {}
         ELSE UNION {Range(x.guard.branches[i]) : i \in 1..Len(x.guard.branches)})

\* C16: tryFinalizeGuard changes the stack only when all arms hold the same
\* number k of pending variables: then k fresh, pairwise distinct merged
\* variables are inserted at the guard boundary, below the depth topmost
\* entries and above the others, whose order is kept, the guard is removed and
\* the merged variables are returned; otherwise (arms of different lengths,
\* a guard that has no arm to compare, or no guard) it returns null and leaves
\* stack and guard as they were.
C16_Finalize ==
    last.op = "tryFinalizeGuard" =>
        IF aligned(last.before)
        THEN /\ last.done
             /\ stk.guard = NoGuard
             /\ Len(last.merged) = Len(last.before.guard.branches[1])
             /\ Cardinality(Range(last.merged)) = Len(last.merged)
             /\ Range(last.merged) \cap heldBy(last.before) = {}
             /\ stk.stack =
                    Take(last.before.stack,
                         Len(last.before.stack) - last.before.guard.depth)
                    \o last.merged
                    \o Drop(last.before.stack,
                            Len(last.before.stack) - last.before.guard.depth)
        ELSE /\ ~last.done
             /\ last.merged = <<>>
             /\ stk = last.before

\* C16 witness: a guard with entries below and above its boundary has been
\* finalized into two merged variables
C16_Witness ==
    /\ last.op = "tryFinalizeGuard"
    /\ last.done
    /\ Len(last.merged) = 2
    /\ last.before.guard.depth >= 1
    /\ Len(last.before.stack) > last.before.guard.depth

\* C17: while a guard is active a push raises its depth by one, a pop that
\* succeeds lowers it by one and removes the top entry, a pop with no value
\* left above the boundary fails with GuardUnresolved and removes nothing, and
\* the entries that lay below the boundary when the guard was created stay
\* where they are.
C17_GuardedPop ==
    /\ (last.op = "pop" /\ last.before.guard # NoGuard) =>
          IF last.before.guard.depth <= 0
          THEN /\ last.err = GuardUnresolvedError
               /\ stk = last.before
          ELSE /\ last.err = NoErr
               /\ stk.stack = Take(last.before.stack, Len(last.before.stack) - 1)
               /\ stk.guard = [last.before.guard EXCEPT !.depth = @ - 1]
    /\ (last.op = "push" /\ last.before.guard # NoGuard) =>
          /\ stk.guard = [last.before.guard EXCEPT !.depth = @ + 1]
          /\ Take(stk.stack, Len(last.before.stack)) = last.before.stack
    /\ stk.guard # NoGuard =>
          /\ Len(stk.stack) - stk.guard.depth >= Len(last.base)
          /\ Take(stk.stack, Len(last.base)) = last.base

\* C17 witness: a pop has failed with GuardUnresolved on a stack whose
\* entries all lie below the boundary
C17_Witness ==
    /\ last.op = "pop"
    /\ last.err = GuardUnresolvedError
    /\ last.base # <<>>
    /\ stk.stack = last.base

(***************************************************************************)
(* What the properties of conditional outputs speak of.                    *)
(***************************************************************************)
\* the conditional outputs of a catalog entry
condOf(spec) == SelectSeq(spec.outputs, LAMBDA o : o.type = "conditional")

\* the outputs __cond0, __cond1, ... of a statement
condNamed(st) ==
    SelectSeq(st.outputs, LAMBDA o : o.name \in {"__cond" \o ToString(i) : i \in 0..9})

condNames(k) == [i \in 1..k |-> "__cond" \o ToString(i - 1)]

\* the statement an attempt has just appended
Emitted == TopAfter.body[Len(TopAfter.body)]

\* the entries of the given ids, as a stack holds them
entriesOf(outs) == [i \in 1..Len(outs) |-> StackVariable(outs[i].value.id)]

\* the instruction to apply has one conditional output and its arms all hold
\* k >= 1 entries
EqualArms(k) ==
    /\ Attempting
    /\ Len(condOf(Top.spec)) = 1
    /\ armsOf(condOf(Top.spec)[1]) # <<>>
    /\ k >= 1
    /\ \A i \in 1..Len(armsOf(condOf(Top.spec)[1])) :
          Len(armsOf(condOf(Top.spec)[1])[i]) = k

\* C18: an instruction whose conditional output has arms of the same number
\* k >= 1 of entries, applied with no guard pending, finalizes the guard
\* itself: its statement gets the k extra outputs __cond0 .. __cond(k-1), no
\* guard is active afterwards and the merged values are on the stack for the
\* next instruction (ADD after a one-entry conditional reads __cond0 and a
\* synthesized arg0).
C18_FinalizesInside ==
    [][ /\ \A k \in 1..MaxArmLen :
              (EqualArms(k) /\ Top.guard = NoGuard /\ attemptError = NoErr) =>
                  /\ TopAfter.guard = NoGuard
                  /\ Len(TopAfter.body) = Len(Top.body) + 1
                  /\ [i \in 1..Len(condNamed(Emitted)) |-> condNamed(Emitted)[i].name]
                         = condNames(k)
                  /\ Len(Emitted.outputs) = Len(Top.spec.outputs) - 1 + k
                  /\ Cardinality(Range(entriesOf(condNamed(Emitted)))) = k
                  /\ Range(entriesOf(condNamed(Emitted))) \cap Range(Top.stack) = {}
                  /\ Range(entriesOf(condNamed(Emitted))) \subseteq Range(TopAfter.stack)
        /\ (ret' # NoFn /\ root = Build(<<I_CONDAB, I_ADD>>)) =>
              /\ ret'.decompileError = NoErr
              /\ ret'.args = <<"arg0">>
              /\ Len(ret'.body) = 2
              /\ boundTo(ret'.body[2], "y") = condNamed(ret'.body[1])[1].value.id
              /\ boundTo(ret'.body[2], "x") = "arg0"
      ]_vars

\* C18 witness: the conditional of two entries per arm has been applied with
\* no guard pending and its two merged values are on the stack, no guard left
C18_Witness ==
    /\ frames # <<>>
    /\ Top.pc = "tail"
    /\ Top.spec.mnemonic = "CONDAB2"
    /\ Top.decompileError = NoErr
    /\ Top.guard = NoGuard
    /\ Len(Top.body) >= 1
    /\ Len(condNamed(Top.body[Len(Top.body)])) = 2

\* the instruction to apply meets a pending guard, takes its inputs from above
\* the boundary, starts its outputs with a conditional, and the entries of
\* that conditional bring every arm of the guard to k >= 1 entries
Equalizes(k) ==
    /\ Attempting
    /\ Top.guard # NoGuard
    /\ inputsNow.x.err = NoErr
    /\ Top.spec.branches = <<>>
    /\ Top.spec.outputs # <<>>
    /\ Head(Top.spec.outputs).type = "conditional"
    /\ Len(armsOf(Head(Top.spec.outputs))) = Len(Top.guard.branches)
    /\ k >= 1
    /\ \A i \in 1..Len(Top.guard.branches) :
          Len(Top.guard.branches[i]) + Len(armsOf(Head(Top.spec.outputs))[i]) = k

\* C19: when a later instruction adds conditional entries that make the arms
\* of a pending guard equal, the entries accumulate per arm index, the depth
\* of the guard becomes the smaller of its depth and the new one (0 for a
\* conditional that is the first output), and the guard finalizes in that
\* instruction: its statement receives the __cond outputs and the merged
\* values are inserted at that depth.
C19_LaterEqualizes ==
    [][ \A k \in 1..(2 * MaxArmLen) :
           Equalizes(k) =>
              /\ attemptError = NoErr
              /\ TopAfter.guard = NoGuard
              /\ Len(TopAfter.body) = Len(Top.body) + 1
              /\ [i \in 1..Len(condNamed(Emitted)) |-> condNamed(Emitted)[i].name]
                     = condNames(k)
              /\ Take(Emitted.outputs, k) = condNamed(Emitted)
              /\ TopAfter.stack =
                     Take(inputsNow.x.stack,
                          Len(inputsNow.x.stack) - Min(inputsNow.x.guard.depth, 0))
                     \o entriesOf(condNamed(Emitted))
                     \o Drop(inputsNow.x.stack,
                             Len(inputsNow.x.stack) - Min(inputsNow.x.guard.depth, 0))
                     \o entriesOf(Drop(Emitted.outputs, k))
      ]_vars

\* C19 witness: DICTGET then NULLSWAPIFNOT has been lifted without error, the
\* second statement holding the merged value, and no guard is left
C19_Witness ==
    /\ root = Build(<<I_DICTGET, I_NULLSWAPIFNOT>>)
    /\ ret # NoFn
    /\ ret.decompileError = NoErr
    /\ Top.guard = NoGuard
    /\ Len(ret.body) = 2
    /\ outputNames(ret.body[1]) = <<"f">>
    /\ outputNames(ret.body[2]) = <<"__cond0", "x">>

\* the catalog entry without its conditional outputs
plainOutputs(spec) ==
    [spec EXCEPT !.outputs = SelectSeq(spec.outputs, LAMBDA o : o.type # "conditional")]

\* C20: a conditional output without any entry (every arm empty, or no arm),
\* met with no guard pending, finalizes at once: after the instruction no
\* guard is active, no __cond output is emitted and the stack is what it would
\* be without the conditional entry.
C20_EmptyConditional ==
    (/\ Attempting
     /\ Top.guard = NoGuard
     /\ Len(condOf(Top.spec)) = 1
     /\ \A i \in 1..Len(armsOf(condOf(Top.spec)[1])) : armsOf(condOf(Top.spec)[1])[i] = <<>>
     /\ attemptError = NoErr) =>
        /\ buildOp(Top.spec, Top.operands, stackCopy(Top)).x.guard = NoGuard
        /\ condNamed(buildOp(Top.spec, Top.operands, stackCopy(Top)).op) = <<>>
        /\ buildOp(Top.spec, Top.operands, stackCopy(Top)).x.stack
               = buildOp(plainOutputs(Top.spec), Top.operands, stackCopy(Top)).x.stack

(***************************************************************************)
(* What the properties of the passes speak of.                             *)
(***************************************************************************)
\* the function the passes of Pipeline.run(ret) start from: ret with its
\* continuation operands processed
passInput == [ret EXCEPT !.body = [i \in 1..Len(ret.body) |-> runOnOperands(ret.body[i])]]

\* the single-output constant statements of a body, by position
constAt(body) == {i \in 1..Len(body) : isConstProducer(body[i])}

\* the statements of a body that use id as a plain top-level input
usersOf(body, id) ==
    {i \in 1..Len(body) :
        \E k \in 1..Len(body[i].inputs) : isRefTo(body[i].inputs[k].value, id)}

\* the positions inlineConsts is to delete: constants with a use, not in result
deletedConsts(fn) ==
    {i \in constAt(fn.body) :
        /\ usersOf(fn.body, fn.body[i].outputs[1].value.id) # {}
        /\ fn.body[i].outputs[1].value.id \notin Range(fn.result)}

\* the positions that stay, in order
keptOf(fn) == SelectSeq([i \in 1..Len(fn.body) |-> i], LAMBDA i : i \notin deletedConsts(fn))

\* input arg of fn with every use of a constant's output made an inline
\* expression of the statement that produces it
constInlined(fn, arg) ==
    IF arg.kind = "ref" /\ \E i \in constAt(fn.body) : fn.body[i].outputs[1].value.id = arg.id
    THEN Inline(fn.body[CHOOSE i \in constAt(fn.body) :
                           fn.body[i].outputs[1].value.id = arg.id])
    ELSE arg

\* C21: inlineConsts replaces every top-level use of the single output of a
\* const_int / const_data statement, in any number of consumers, adjacent or
\* not, by an inline expression wrapping that statement; it removes the
\* statement exactly when it had a use and its output is not in result; the
\* other statements stay, in their order, and nothing else changes.
C21_InlineConsts ==
    piped # NoFn =>
        /\ piped = inlinePrevSingleUse(inlineConsts(passInput))
        /\ Len(inlineConsts(passInput).body) = Len(keptOf(passInput))
        /\ \A k \in 1..Len(keptOf(passInput)) :
              /\ inlineConsts(passInput).body[k].mnemonic
                     = passInput.body[keptOf(passInput)[k]].mnemonic
              /\ inlineConsts(passInput).body[k].outputs
                     = passInput.body[keptOf(passInput)[k]].outputs
              /\ inlineConsts(passInput).body[k].operands
                     = passInput.body[keptOf(passInput)[k]].operands
              /\ inlineConsts(passInput).body[k].inputs
                     = [m \in 1..Len(passInput.body[keptOf(passInput)[k]].inputs) |->
                          Named(passInput.body[keptOf(passInput)[k]].inputs[m].name,
                                constInlined(passInput,
                                    passInput.body[keptOf(passInput)[k]].inputs[m].value))]
        /\ inlineConsts(passInput).args = passInput.args
        /\ inlineConsts(passInput).result = passInput.result

\* C21 witness: the pipeline has run on a function in which a constant that is
\* not in result is used by two statements, one of them not next to it
C21_Witness ==
    /\ piped # NoFn
    /\ \E i \in deletedConsts(passInput) :
          /\ Cardinality(usersOf(passInput.body, passInput.body[i].outputs[1].value.id)) >= 2
          /\ \E j \in usersOf(passInput.body, passInput.body[i].outputs[1].value.id) : j > i + 1

\* a statement and the statements nested in its inline inputs
RECURSIVE nested(_)
nested(st) ==
    {st} \cup UNION {IF st.inputs[k].value.kind = "inline"
                     THEN nested(st.inputs[k].value.op) ELSE {} : k \in 1..Len(st.inputs)}

allStmts(fn) == UNION {nested(fn.body[i]) : i \in 1..Len(fn.body)}

\* body[i] has one output, not in result and used once, by body[i + 1]
SingleUsePair(fn, i) ==
    /\ i + 1 <= Len(fn.body)
    /\ Len(fn.body[i].outputs) = 1
    /\ fn.body[i].outputs[1].value.id \notin Range(fn.result)
    /\ countUses(fn.body, fn.body[i].outputs[1].value.id) = 1
    /\ usersOf(fn.body, fn.body[i].outputs[1].value.id) = {i + 1}

\* the name of the input of st that refers to id
useName(st, id) ==
    st.inputs[CHOOSE k \in 1..Len(st.inputs) : isRefTo(st.inputs[k].value, id)].name

\* C22: when a statement with exactly one output, not in result and used
\* exactly once, is directly followed by the statement that uses it, the
\* pipeline makes that input an inline expression wrapping the producer and
\* deletes the producer (the consumer may itself end up inside its own
\* consumer); a body of two unary statements t = P(arg0); y = Q(t) with
\* result [y] becomes the single statement Q(x = inline(P(x = arg0))).
C22_InlinePrev ==
    piped # NoFn =>
        /\ \A i \in 1..Len(ret.body) :
              SingleUsePair(ret, i) =>
                 /\ \A k \in 1..Len(piped.body) : piped.body[k].outputs # ret.body[i].outputs
                 /\ \A k \in 1..Len(piped.body) :
                       ret.body[i].outputs[1].value.id \notin refIds(piped.body[k].inputs)
                 /\ \E c \in allStmts(piped) :
                       /\ c.mnemonic = ret.body[i + 1].mnemonic
                       /\ c.outputs = ret.body[i + 1].outputs
                       /\ \E k \in 1..Len(c.inputs) :
                             /\ c.inputs[k].name
                                    = useName(ret.body[i + 1], ret.body[i].outputs[1].value.id)
                             /\ c.inputs[k].value.kind = "inline"
                             /\ c.inputs[k].value.op.mnemonic = ret.body[i].mnemonic
                             /\ c.inputs[k].value.op.outputs = ret.body[i].outputs
        /\ root = Build(<<I_INC, I_INC>>) =>
              /\ ret.args = <<"arg0">>
              /\ Len(ret.body) = 2
              /\ ret.result = <<ret.body[2].outputs[1].value.id>>
              /\ ret.body[1].inputs[1].value.id = "arg0"
              /\ piped.body =
                    << [ret.body[2] EXCEPT !.inputs = <<Named("x", Inline(ret.body[1]))>>] >>
              /\ piped.result = ret.result
              /\ piped.args = ret.args

\* C22 witness: the pipeline has run on the two unary statements INC; INC
C22_Witness ==
    /\ piped # NoFn
    /\ root = Build(<<I_INC, I_INC>>)
    /\ SingleUsePair(ret, 1)
    /\ Len(piped.body) = 1

\* the statements held by the inline inputs of the statements of fn, at any depth
inlinedIn(fn) ==
    UNION {UNION {IF st.inputs[k].value.kind = "inline"
                  THEN {st.inputs[k].value.op} ELSE {} : k \in 1..Len(st.inputs)} :
           st \in allStmts(fn)}

\* C23: a producer whose output id is listed in result is not inlined by the
\* default pipeline, constant or not: it is still a statement of the body and
\* no consumer holds it as an inline expression, the inputs that referred to
\* its output staying plain references.
C23_ResultNotInlined ==
    piped # NoFn =>
        \A i \in 1..Len(ret.body) :
           (outIds(ret.body[i]) \cap Range(ret.result) # {}) =>
              /\ \E k \in 1..Len(piped.body) : piped.body[k].outputs = ret.body[i].outputs
              /\ \A st \in inlinedIn(piped) : st.outputs # ret.body[i].outputs

(***************************************************************************)
(* What the properties of decoding speak of.                               *)
(***************************************************************************)
\* the mnemonics of the instructions decoded from a code slice, in order: the
\* decoder is applied until no bit is left or it fails, continuing in the
\* first ref whenever the bits run out
RECURSIVE decodedFrom(_)
decodedFrom(slice) ==
    IF Len(slice.bits) = 0 \/ nextInstruction(slice).err # NoErr THEN <<>>
    ELSE <<nextInstruction(slice).spec.mnemonic>>
             \o decodedFrom(chaseRefs(nextInstruction(slice).slice))

shuffle(m) == SpecOf(m).category \in {"stack_basic", "stack_complex"}

\* C24: in a lift that ends with neither decompileError nor disassembleError
\* the body holds one primitive per decoded instruction whose category is not
\* stack_basic or stack_complex, in decoding order: every attempt that
\* succeeds on such an instruction appends exactly one primitive, one on a
\* shuffle instruction appends none, and no other step changes a body.
C24_BodyLength ==
    [][ /\ (Attempting /\ attemptError = NoErr) =>
              /\ Len(frames') = Len(frames)
              /\ TopAfter.body =
                    IF Top.spec.category \in {"stack_basic", "stack_complex"}
                    THEN Top.body
                    ELSE Append(Top.body, TopAfter.body[Len(TopAfter.body)])
              /\ ~(Top.spec.category \in {"stack_basic", "stack_complex"}) =>
                    /\ Len(TopAfter.body) = Len(Top.body) + 1
                    /\ TopAfter.body[Len(TopAfter.body)].mnemonic = Top.spec.mnemonic
        /\ (~(Attempting /\ attemptError = NoErr) /\ runs' = runs) =>
              \A i \in 1..Min(Len(frames), Len(frames')) : frames'[i].body = frames[i].body
        /\ (ret' # NoFn /\ ret'.decompileError = NoErr /\ ret'.disassembleError = NoErr) =>
              /\ [i \in 1..Len(ret'.body) |-> ret'.body[i].mnemonic]
                     = SelectSeq(decodedFrom(root), LAMBDA m : ~shuffle(m))
              /\ Len(ret'.body)
                     = Len(decodedFrom(root)) - Len(SelectSeq(decodedFrom(root), shuffle))
      ]_vars

\* C24 witness: a lift without error of three instructions, the shuffle DEPTH
\* among them, has returned two primitives
C24_Witness ==
    /\ ret # NoFn
    /\ ret.decompileError = NoErr
    /\ ret.disassembleError = NoErr
    /\ Len(decodedFrom(root)) = 3
    /\ "DEPTH" \in Range(decodedFrom(root))
    /\ Len(ret.body) = 2

(***************************************************************************)
(* What the property of the loader speaks of.                              *)
(***************************************************************************)
\* the first n instructions of a code slice, decoded one after the other
\* without following refs: whether all n decode, their mnemonics, what is left
RECURSIVE firstN(_, _, _)
firstN(slice, n, ms) ==
    IF n = 0 THEN [ok |-> TRUE, ms |-> ms, rest |-> slice]
    ELSE IF nextInstruction(slice).err # NoErr
    THEN [ok |-> FALSE, ms |-> ms, rest |-> slice]
    ELSE firstN(nextInstruction(slice).slice, n - 1,
                Append(ms, nextInstruction(slice).spec.mnemonic))

\* the root decodes as exactly SETCP, DICTPUSHCONST, DICTIGETJMPZ, THROWARG
IsDispatcher(r) ==
    /\ firstN(r, 4, <<>>).ok
    /\ firstN(r, 4, <<>>).ms = <<"SETCP", "DICTPUSHCONST", "DICTIGETJMPZ", "THROWARG">>
    /\ firstN(r, 4, <<>>).rest = EmptyCell

\* C25: decompileSlice returns a multi-method program only when the root
\* decodes as exactly SETCP, DICTPUSHCONST, DICTIGETJMPZ, THROWARG with no bit
\* and no ref left over (and the dictionary parses); for every other root it
\* returns a single-function program, the pipeline's output for the one lift
\* of the root as it was given, from its first bit.
C25_DispatchOrSingle ==
    dec.program.kind # "none" =>
        /\ dec.program.kind = "multi" <=> (IsDispatcher(root) /\ dec.parsed.ok)
        /\ dec.program.kind = "multi" =>
              /\ Len(dec.program.methods) = Len(dec.parsed.methods)
              /\ dec.lifted = [i \in 1..Len(dec.parsed.methods) |->
                                  dec.parsed.methods[i].slice]
        /\ dec.program.kind # "multi" =>
              /\ dec.program.kind = "single"
              /\ dec.lifted = <<root>>
              /\ dec.program.entry = Pipeline_run(ret)

\* C25 witness: a root that is the dispatcher followed by one more instruction
\* has been returned as a single function
C25_Witness ==
    /\ dec.program.kind # "none"
    /\ dec.program.kind = "single"
    /\ firstN(root, 4, <<>>).ok
    /\ firstN(root, 4, <<>>).ms = <<"SETCP", "DICTPUSHCONST", "DICTIGETJMPZ", "THROWARG">>
    /\ firstN(root, 4, <<>>).rest # EmptyCell
    /\ Len(dec.program.entry.body) >= 1

\* C26: lifting does not change the cursor it is given: when liftSliceToIR(s)
\* has returned, s has the bits and refs it had before the call.
C26_CursorUntouched ==
    (ret # NoFn /\ frames # <<>> /\ frames[1].pc = "done") =>
        /\ frames[1].given.bits = root.bits
        /\ frames[1].given.refs = root.refs

(***************************************************************************)
(* What the properties of the decoder speak of.                            *)
(***************************************************************************)
\* the step decodes an instruction of the innermost call
Decoding == frames # <<>> /\ Top.pc = "loop" /\ Len(Top.slice.bits) > 0

\* the catalog entries whose prefix is the first n bits of the slice
entriesAt(slice, n) ==
    {i \in 1..Len(cp0) : n <= Len(slice.bits) /\ prefixBits[i] = Take(slice.bits, n)}

\* the value a range check of the given length reads after n bits; -1 when the
\* slice is too short for it
checkedValue(slice, n, length) ==
    IF n + length > Len(slice.bits) THEN -1
    ELSE bitsToUint(SubSeq(slice.bits, n + 1, n + length))

\* entry i, matching at length n, is accepted / is turned down by its range check
accepted(slice, n, i) ==
    \/ cp0[i].operands_range_check = NoRange
    \/ /\ cp0[i].operands_range_check # NoRange
       /\ checkedValue(slice, n, cp0[i].operands_range_check.length)
              \in cp0[i].operands_range_check.from..cp0[i].operands_range_check.to

turnedDown(slice, n, i) ==
    /\ cp0[i].operands_range_check # NoRange
    /\ checkedValue(slice, n, cp0[i].operands_range_check.length) # -1
    /\ \/ checkedValue(slice, n, cp0[i].operands_range_check.length)
              < cp0[i].operands_range_check.from
       \/ checkedValue(slice, n, cp0[i].operands_range_check.length)
              > cp0[i].operands_range_check.to

\* the candidate lengths at which some entry matches and is accepted
acceptingLengths(slice) ==
    {n \in 1..getLongestPrefixLength : \E i \in entriesAt(slice, n) : accepted(slice, n, i)}

\* C27: the decoder returns the instruction at the shortest prefix length at
\* which the bits match a catalog prefix and the range check, if any, passes;
\* a matching prefix whose range check fails consumes nothing and the longer
\* lengths are still tried.
C27_ShortestAccepted ==
    [][ Decoding =>
          /\ loadPrefix(Top.slice).err = NoErr =>
                /\ acceptingLengths(Top.slice) # {}
                /\ \A n \in acceptingLengths(Top.slice) :
                      (\A m \in acceptingLengths(Top.slice) : n <= m) =>
                         /\ loadPrefix(Top.slice).insn.mnemonic
                                \in {cp0[i].mnemonic : i \in entriesAt(Top.slice, n)}
                         /\ loadPrefix(Top.slice).slice.bits = Drop(Top.slice.bits, n)
                         /\ loadPrefix(Top.slice).slice.refs = Top.slice.refs
                         /\ nextInstruction(Top.slice).err = NoErr =>
                               TopAfter.spec = loadPrefix(Top.slice).insn
          /\ (\E n \in acceptingLengths(Top.slice) :
                 \A m \in 1..(n - 1) : \A i \in entriesAt(Top.slice, m) :
                    turnedDown(Top.slice, m, i)) =>
                loadPrefix(Top.slice).err = NoErr
      ]_vars

\* C27 witness: an instruction has been decoded at a prefix length longer than
\* one at which a prefix matched and its range check failed just above its limit
C27_Witness ==
    /\ frames # <<>>
    /\ Top.pc = "hints"
    /\ Top.spec.mnemonic = "PUSHNAN"
    /\ cp0[CHOOSE i \in 1..Len(cp0) : cp0[i].mnemonic = "PUSHPOW2"].operands_range_check.to = 254

\* the bits and refs that loading one operand takes, read off the bits at off
widthOf(operand, bits, off) ==
    CASE operand.type \in {"uint", "int"} -> [b |-> operand.size, r |-> 0]
      [] operand.type = "ref" -> [b |-> 0, r |-> 1]
      [] operand.type = "pushint_long" ->
            [b |-> 5 + 8 * bitsToUint(SubSeq(bits, off + 1, off + 5)) + 19, r |-> 0]
      [] operand.type = "subslice" ->
            [b |-> operand.refs_length_var_size + operand.bits_length_var_size
                     + operand.bits_padding
                     + 8 * bitsToUint(SubSeq(bits,
                              off + operand.refs_length_var_size + 1,
                              off + operand.refs_length_var_size
                                  + operand.bits_length_var_size)),
             r |-> operand.refs_add
                     + bitsToUint(SubSeq(bits, off + 1, off + operand.refs_length_var_size))]

\* the bits and refs taken by the operands decls, the first one starting at off
RECURSIVE widthsOf(_, _, _)
widthsOf(decls, bits, off) ==
    IF decls = <<>> THEN [b |-> 0, r |-> 0]
    ELSE [b |-> widthOf(Head(decls), bits, off).b
                  + widthsOf(Tail(decls), bits, off + widthOf(Head(decls), bits, off).b).b,
          r |-> widthOf(Head(decls), bits, off).r
                  + widthsOf(Tail(decls), bits, off + widthOf(Head(decls), bits, off).b).r]

\* C28: after nextInstruction has succeeded the cursor is past exactly the
\* matched prefix and the operands loaded (w bits for an int or uint of size
\* w, 5 + 8 * L + 19 for a long integer of length field L, the length fields
\* and the payload for a subslice) and past exactly the refs the operands
\* took; bits that a range check looked at are not consumed.
C28_Advance ==
    [][ (Decoding /\ nextInstruction(Top.slice).err = NoErr) =>
          /\ TopAfter.slice.bits =
                Drop(Top.slice.bits,
                     Len(prefixToBin(TopAfter.spec.prefix))
                       + widthsOf(TopAfter.spec.operands, Top.slice.bits,
                                  Len(prefixToBin(TopAfter.spec.prefix))).b)
          /\ TopAfter.slice.refs =
                Drop(Top.slice.refs,
                     widthsOf(TopAfter.spec.operands, Top.slice.bits,
                              Len(prefixToBin(TopAfter.spec.prefix))).r)
      ]_vars

\* C28 witness: a subslice operand with two refs and a payload of nine bits has
\* been loaded, and a long integer with length field 1
C28_Witness ==
    /\ frames # <<>>
    /\ Top.spec # None
    /\ Top.spec.mnemonic = "PUSHINT_LONG"
    /\ Len(root.bits) = (8 + 2 + 5 + 9) + (8 + 5 + 27)
    /\ Top.slice.bits = <<>>
    /\ Len(frames) = 1
    /\ Len(Top.body) = 1
    /\ Top.body[1].mnemonic = "PUSHSLICE_REFS"
    /\ Len(root.refs) = 2
    /\ Top.slice.refs = <<>>

\* C29: Pipeline.run does not modify its argument: after the run the function
\* it was given has the body, the input lists and the operand values it had
\* before.
C29_ArgumentUntouched ==
    piped # NoFn => runArg = ret

\* the number of entries a shuffle primitive needs on the stack to succeed:
\* the deepest position it addresses, plus one; blkpop(n, j) swaps the top with
\* position j before each of its n pops, the last time with n - 1 entries gone
neededBy(op) ==
    CASE op.op = "xchg" -> Max(op.i, op.j) + 1
      [] op.op = "blkpush" -> IF op.i = 0 THEN 0 ELSE op.j + 1
      [] op.op = "blkpop" -> IF op.i = 0 THEN 0 ELSE op.j + op.i
      [] op.op = "reverse" -> IF op.i = 0 THEN op.j + 1 ELSE op.j + op.i

\* a shuffle instruction has just been run with no guard pending
Shuffled == last.op = "execStackInstruction" /\ last.before.guard = NoGuard

\* C30: a shuffle primitive raises StackUnderflow only when the stack has
\* fewer entries than the primitive needs, and the depth it reports is the
\* number of entries that are missing for the primitive to succeed.
C30_UnderflowDepth ==
    Shuffled =>
       /\ last.err \in {NoErr, StackUnderflowError}
       /\ last.err = StackUnderflowError <=>
             Len(last.before.stack) < neededBy(last.insn.op)
       /\ last.err = StackUnderflowError =>
             last.und = neededBy(last.insn.op) - Len(last.before.stack)

(***************************************************************************)
(* What the properties of the shuffles in the lifter speak of.             *)
(***************************************************************************)
\* the step is an attempt of the shuffle m with no guard pending
AttemptingShuffle(m) ==
    /\ Attempting
    /\ Top.spec.mnemonic = m
    /\ Top.guard = NoGuard

\* C31: blkpush(n, j) on a stack of more than j entries pushes n copies of
\* the one entry that was at depth j before the operation and leaves the
\* entries below unchanged.
C31_BlkpushCopies ==
    [][ (AttemptingShuffle("BLKPUSH")
           /\ Len(Top.stack) > operandNum(Top.operands, "j")) =>
          /\ attemptError = NoErr
          /\ TopAfter.stack =
                Top.stack \o [k \in 1..operandNum(Top.operands, "i") |->
                                Top.stack[Len(Top.stack) - operandNum(Top.operands, "j")]]
      ]_vars

\* what tells one statement of a body from another
stmtKey(st) == [mnemonic |-> st.mnemonic, outputs |-> st.outputs]

\* the statements in the order in which a statement with its inline inputs has
\* them take effect: the inline inputs from the deepest to the top as the
\* catalog lists them (the input list is in the order of the pops, the top
\* first), each with its own inline inputs first, then the statement
RECURSIVE effects(_)
effects(st) ==
    Flatten([k \in 1..Len(st.inputs) |->
                IF st.inputs[Len(st.inputs) + 1 - k].value.kind = "inline"
                THEN effects(st.inputs[Len(st.inputs) + 1 - k].value.op) ELSE <<>>])
        \o <<stmtKey(st)>>

effectsOf(body) == Flatten([i \in 1..Len(body) |-> effects(body[i])])

\* the pairs (producer, statement that holds it as an inline input) of a function
embeddings(fn) ==
    UNION {{<<stmtKey(st.inputs[k].value.op), stmtKey(st)>> :
               k \in {m \in 1..Len(st.inputs) : st.inputs[m].value.kind = "inline"}} :
           st \in allStmts(fn)}

\* C32: inlinePrevSingleUse embeds a producer only into the statement that
\* directly followed it in the body the pass was given, and the statements
\* take effect in the order in which they stood in that body.
C32_OrderKept ==
    ret # NoFn =>
        /\ \A e \in embeddings(inlinePrevSingleUse(ret)) :
              \E i \in 1..(Len(ret.body) - 1) :
                 stmtKey(ret.body[i]) = e[1] /\ stmtKey(ret.body[i + 1]) = e[2]
        /\ effectsOf(inlinePrevSingleUse(ret).body) = effectsOf(ret.body)

\* the cells below a cell
RECURSIVE Descendants(_)
Descendants(cell) ==
    UNION {{cell.refs[k]} \cup Descendants(cell.refs[k]) : k \in 1..Len(cell.refs)}

\* C33: the lifter terminates: an iteration of the main loop consumes at
\* least one bit of the current cursor or ends the loop, an instruction is
\* attempted at most 11 times, the ref chase moves only from a cell to a cell
\* below it, and every call of liftSliceToIR returns.
C33_Terminates ==
    /\ [][ /\ Decoding =>
                \/ TopAfter.pc = "ret"
                \/ Len(TopAfter.slice.bits) < Len(Top.slice.bits)
           /\ Attempting =>
                /\ Top.t <= RetryCap
                /\ Top.t = RetryCap =>
                      (frames' = <<>> \/ Len(frames') < Len(frames) \/ TopAfter.pc = "tail")
           /\ (frames # <<>> /\ Top.pc = "tail") =>
                \/ TopAfter.slice = Top.slice
                \/ /\ Len(Top.slice.bits) = 0
                   /\ TopAfter.slice \in Descendants(Top.slice)
       ]_vars
    /\ <>(ret # NoFn \/ thrown # NoErr)

\* C33 witness: a lift has returned after having followed a ref into a child
\* cell and after an instruction was retried
C33_Witness ==
    /\ ret # NoFn
    /\ frames # <<>>
    /\ frames[1].pc = "done"
    /\ Len(root.refs) > 0
    /\ Len(root.bits) > 0
    /\ ret.tailSliceInfo = None
    /\ ret.disassembleError = NoErr
    /\ Len(ret.args) > 0

\* the number of statements a statement stands for: itself and the statements
\* held by its inline inputs, at any depth
RECURSIVE sizeOf(_)
sizeOf(st) ==
    1 + Len(Flatten([k \in 1..Len(st.inputs) |->
                        IF st.inputs[k].value.kind = "inline"
                        THEN [n \in 1..sizeOf(st.inputs[k].value.op) |-> 0] ELSE <<>>]))

sizeOfBody(body) == Len(Flatten([i \in 1..Len(body) |-> [n \in 1..sizeOf(body[i]) |-> 0]]))

\* C34: inlinePrevSingleUse returns a body in which no adjacent pair
\* qualifies any more; each inlining has taken exactly one statement out of
\* the body and into its consumer, so a body of n statements has had at most
\* n - 1 inlinings.
C34_Fixpoint ==
    ret # NoFn =>
        /\ \A i \in 1..Len(inlinePrevSingleUse(ret).body) :
              ~SingleUsePair(inlinePrevSingleUse(ret), i)
        /\ sizeOfBody(inlinePrevSingleUse(ret).body) = Len(ret.body)
        /\ Len(ret.body) - Len(inlinePrevSingleUse(ret).body) <= Max(0, Len(ret.body) - 1)
        /\ Len(inlinePrevSingleUse(ret).body) <= Len(ret.body)

\* C34 witness: a body of four statements that the pass brings down to one in
\* three rounds
C34_Witness ==
    /\ ret # NoFn
    /\ Len(ret.body) = 4
    /\ Len(inlinePrevSingleUse(ret).body) = 1
    /\ sizeOfBody(inlinePrevSingleUse(ret).body) = 4

\* the functions that the PUSHCONT and PUSHCONT_SHORT statements of a body
\* pushed as the value id
pushedAs(body, id) ==
    {body[k].operands[1].value.value :
        k \in {m \in 1..Len(body) :
                 /\ body[m].mnemonic \in {"PUSHCONT", "PUSHCONT_SHORT"}
                 /\ body[m].outputs[1].value.id = id}}

\* the step is an attempt of an instruction that reads its branch target from
\* the top of the stack
AttemptingCall ==
    /\ Attempting
    /\ Top.spec.mnemonic \in {"EXECUTE", "JMPX"}
    /\ Top.guard = NoGuard
    /\ Top.stack # <<>>

\* C35: a value pushed by PUSHCONT or PUSHCONT_SHORT carries the lifted
\* function of the operand, wherever shuffles have moved or copied it, and an
\* instruction that reads its branch target from such a value resolves the
\* target to that function; read from a value without the metadata, the
\* instruction fails with a decompileError that is not retried.
C35_MetaCarried ==
    [][ /\ \A d \in 1..Len(frames) : \A k \in 1..Len(frames[d].stack) :
              \A fn \in pushedAs(frames[d].body, frames[d].stack[k].name) :
                 frames[d].stack[k].continuationMeta = fn
        /\ (AttemptingCall /\ Top.stack[Len(Top.stack)].continuationMeta # NoFn) =>
              /\ attemptError \in {NoErr, StackUnderflowError}
              /\ attemptError = NoErr =>
                    /\ TopAfter.body[Len(TopAfter.body)].inputs[1] =
                          Named("c", Ref(Top.stack[Len(Top.stack)].name,
                                         Top.stack[Len(Top.stack)].continuationMeta))
                    /\ Len(TopAfter.body[Len(TopAfter.body)].inputs) =
                          1 + Len(Top.stack[Len(Top.stack)].continuationMeta.args)
                    /\ pushedAs(Top.body, Top.stack[Len(Top.stack)].name) =
                          {Top.stack[Len(Top.stack)].continuationMeta}
        /\ (AttemptingCall /\ Top.stack[Len(Top.stack)].continuationMeta = NoFn) =>
              /\ TopAfter.decompileError
                    \notin {NoErr, StackUnderflowError, GuardUnresolvedError}
              /\ TopAfter.pc = "tail"
              /\ TopAfter.stack = Top.stack
              /\ TopAfter.body = Top.body
      ]_vars

\* C35 witness: a continuation was pushed, copied by BLKPUSH and moved by
\* XCHG, and the copy has been called: the body ends with EXECUTE on a value
\* that carries a function
C35_Witness ==
    /\ frames # <<>>
    /\ Len(frames) = 1
    /\ Top.pc = "tail"
    /\ Top.decompileError = NoErr
    /\ Len(Top.body) = 2
    /\ Top.body[2].mnemonic = "EXECUTE"
    /\ Top.body[2].inputs[1].value.continuationMeta # NoFn
    /\ decodedFrom(root) = <<"PUSHCONT_SHORT", "BLKPUSH", "XCHG_0I", "EXECUTE">>

\* C36: a failed attempt leaves the entries of the symbolic stack, the guard
\* and the body as they were; it changes only the parameters (those inserted
\* for a retry after an underflow, at the bottom of the stack and at the
\* front of args) and the counter of fresh identifiers, and records the
\* failure (the retry counter, or decompileError when it is not retried).
C36_FailedAttempt ==
    [][ (Attempting /\ attemptError # NoErr) =>
          /\ Len(frames') = Len(frames)
          /\ \A d \in 1..(Len(frames) - 1) : frames'[d] = frames[d]
          /\ TopAfter.body = Top.body
          /\ TopAfter.guard = Top.guard
          /\ TopAfter.slice = Top.slice
          /\ TopAfter.asmTail = Top.asmTail
          /\ TopAfter.disassembleError = Top.disassembleError
          /\ varCounter' >= varCounter
          /\ \/ /\ TopAfter.decompileError = attemptError
                /\ TopAfter.stack = Top.stack
                /\ TopAfter.args = Top.args
                /\ TopAfter.pc = "tail"
             \/ /\ attemptError = StackUnderflowError
                /\ TopAfter.decompileError = NoErr
                /\ TopAfter.t = Top.t + 1
                /\ TopAfter.pc = "apply"
                /\ Len(TopAfter.args) > Len(Top.args)
                /\ SubSeq(TopAfter.args, Len(TopAfter.args) - Len(Top.args) + 1,
                          Len(TopAfter.args)) = Top.args
                /\ TopAfter.stack =
                      SubSeq(TopAfter.args, 1, Len(TopAfter.args) - Len(Top.args))
                          \o Top.stack
      ]_vars

\* C36 witness: ADD has popped one value and then underflowed; the value is
\* back on the stack above the parameter inserted for the retry
C36_Witness ==
    /\ frames # <<>>
    /\ Top.pc = "apply"
    /\ Top.t = 1
    /\ Top.spec.mnemonic = "ADD"
    /\ Len(Top.body) = 1
    /\ Len(Top.stack) = 2
    /\ Len(Top.args) = 2

\* the guard of frame f lies within the stack of f
guardWithin(f) == f.guard # NoGuard => (0 <= f.guard.depth /\ f.guard.depth <= Len(f.stack))

\* C37: in every state of the lifter with an active guard the guard's depth
\* is between 0 and the length of the stack; so an attempt made under an
\* active guard never fails with StackUnderflowError (its pops succeed or
\* throw GuardUnresolvedError), and no parameter is synthesized while a guard
\* is pending.
C37_GuardWithinStack ==
    [][ /\ \A d \in 1..Len(frames) : guardWithin(frames[d])
        /\ \A d \in 1..Len(frames') : guardWithin(frames'[d])
        /\ (Attempting /\ Top.guard # NoGuard) =>
              /\ attemptError # StackUnderflowError
              /\ Len(frames') = Len(frames)
              /\ TopAfter.args = Top.args
              /\ TopAfter.t = 0
      ]_vars

\* C37 witness: a guard is pending with one value above its boundary, and an
\* instruction that needs two values has been turned down for the guard
C37_Witness ==
    /\ frames # <<>>
    /\ Top.guard # NoGuard
    /\ Top.guard.depth = 1
    /\ Top.spec # None
    /\ Top.spec.mnemonic = "ADD"
    /\ Top.decompileError = GuardUnresolvedError
    /\ Top.t = 0

GuardActiveError == "Stack operation is not allowed while conditional guard is active"

\* C38: a stack_basic or stack_complex instruction met while a guard is
\* active, NOP included, fails without retry: the attempt throws the error of
\* execStackInstruction, which becomes decompileError, and the stack, the
\* guard, the parameters and the body stay as they were; that instruction and
\* every later one of the call is appended to asmTail, and no later
\* instruction of the call is attempted.
C38_ShuffleUnderGuard ==
    [][ /\ (Attempting /\ Top.guard # NoGuard /\ isStackOp(Top.spec)) =>
              /\ attemptError = GuardActiveError
              /\ Len(frames') = Len(frames)
              /\ TopAfter = [Top EXCEPT !.decompileError = GuardActiveError, !.pc = "tail"]
        /\ (/\ frames # <<>>
            /\ Top.decompileError = GuardActiveError
            /\ Top.pc # "done"
            /\ Len(frames') = Len(frames)) =>
              /\ TopAfter.decompileError = GuardActiveError
              /\ TopAfter.pc # "apply"
              /\ TopAfter.stack = Top.stack
              /\ TopAfter.guard = Top.guard
              /\ TopAfter.body = Top.body
              /\ Top.pc = "tail" =>
                    TopAfter.asmTail =
                        Append(Top.asmTail, [spec |-> Top.spec.mnemonic,
                                             operands |-> convertOperands(Top.operands)])
      ]_vars

\* C38 witness: NOP came while a guard was pending; NOP and the instruction
\* after it are the raw tail
C38_Witness ==
    /\ frames # <<>>
    /\ Top.guard # NoGuard
    /\ Top.decompileError = GuardActiveError
    /\ Len(Top.asmTail) = 2
    /\ Top.asmTail[1].spec = "NOP"
    /\ Top.body # <<>>

\* the number of stack entries the shuffle of frame f addresses
addressedBy(f) ==
    LET m == f.spec.mnemonic
        i == IF hasNumOperand(f.operands, "i") THEN operandNum(f.operands, "i") ELSE 0
        j == IF hasNumOperand(f.operands, "j") THEN operandNum(f.operands, "j") ELSE 0
    IN  CASE m \in {"PUSH", "POP", "XCHG_0I"} -> i + 1
          [] m = "XCHG_IJ" -> Max(i, j) + 1
          [] m = "DROP2" -> 2
          [] m = "BLKDROP" -> i
          [] m = "BLKPUSH" -> IF i = 0 THEN 0 ELSE j + 1
          [] m \in {"BLKDROP2", "REVERSE"} -> i + j
          [] OTHER -> 0

\* the step is an attempt of a shuffle, no guard pending, on a stack that
\* holds every entry the shuffle addresses
AttemptingOnFullStack ==
    /\ Attempting
    /\ isStackOp(Top.spec)
    /\ Top.guard = NoGuard
    /\ Len(Top.stack) >= addressedBy(Top)

\* the stack without the i entries beneath its top j
withoutBeneath(stack, i, j) ==
    Take(stack, Len(stack) - i - j) \o Drop(stack, Len(stack) - j)

\* C39: a shuffle on a stack that holds every entry it addresses succeeds at
\* once and synthesizes no parameter; BLKDROP2 i, j on at least i + j entries
\* removes exactly the i entries beneath the top j, for every j >= 0.
C39_ShuffleOnFullStack ==
    [][ AttemptingOnFullStack =>
          /\ attemptError = NoErr
          /\ Len(frames') = Len(frames)
          /\ TopAfter.args = Top.args
          /\ TopAfter.t = Top.t
          /\ Top.spec.mnemonic = "BLKDROP2" =>
                TopAfter.stack = withoutBeneath(Top.stack,
                                                operandNum(Top.operands, "i"),
                                                operandNum(Top.operands, "j"))
      ]_vars

(***************************************************************************)
(* The two views of a continuation.  The lifter hands the function object  *)
(* of a PUSHCONT to the value it pushes (operands.ts 105-107) and from     *)
(* there to the inputs that pop the value (line 59).  Pipeline.run(F)      *)
(* returns a new function object (inline.ts 66, 123) and stores it in the  *)
(* operand of the PUSHCONT statement (pipeline.ts 18-19); the metadata     *)
(* keeps naming F, whose body array no pass assigns.                       *)
(***************************************************************************)
\* the statements of the inline expressions among inputs, at any depth
RECURSIVE stmtsIn(_)
stmtsIn(inputs) ==
    UNION {IF inputs[k].value.kind = "inline"
           THEN {inputs[k].value.op} \cup stmtsIn(inputs[k].value.op.inputs)
           ELSE {} : k \in 1..Len(inputs)}

\* the statements of a body and of the inline expressions in it
stmtsDeep(body) == UNION {{body[i]} \cup stmtsIn(body[i].inputs) : i \in 1..Len(body)}

\* the inputs of the statements of body that carry continuationMeta
metaInputs(body) ==
    UNION {{body[i].inputs[k].value : k \in {k \in 1..Len(body[i].inputs) :
                /\ body[i].inputs[k].value.kind = "ref"
                /\ body[i].inputs[k].value.continuationMeta # NoFn}}
           : i \in 1..Len(body)}

\* the PUSHCONT statements of fn that define id
pushersOf(fn, id) ==
    {st \in stmtsDeep(fn.body) :
        /\ st.mnemonic \in {"PUSHCONT", "PUSHCONT_SHORT"}
        /\ st.outputs[1].value.id = id}

\* the function in the cont operand of a PUSHCONT statement
contOf(st) == st.operands[CHOOSE k \in 1..Len(st.operands) : st.operands[k].name = "s"].value.value

====
